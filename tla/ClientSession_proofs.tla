------------------------- MODULE ClientSession_proofs --------------------------
(***************************************************************************)
(* Proofs about ClientSession, for any users, any number of calls under    *)
(* way, sessions, expiries and troubles, and a patient user.               *)
(***************************************************************************)
EXTENDS ClientSession, TLAPS

----------------------------------------------------------------------------
(* The invariant                                                           *)

\* Who has nothing under way holds nothing.
Idles ==
    /\ \A f \in Fibers : fiber[f].pc = "idle" => fiber[f] = Idle
    /\ refresh.pc = "idle" => refresh = NoRefresh
    /\ refresh.pc = "sent" => refresh.s # NoSession /\ refresh.tok = NoToken
    /\ refresh.pc \in {"write", "set"} => refresh.tok # NoToken /\ refresh.tok.s = refresh.s
    /\ auth.loading => Quiet /\ auth.cred = Nobody
    /\ torn <= crashes

\* Every session somebody holds a token of was created for a user.
Real(s) == s # NoSession => owner[s] \in Users
RealSessions ==
    /\ \A tok \in valid : Real(tok.s)
    /\ Real(auth.cred.access.s) /\ Real(auth.cred.refresh) /\ Real(disk.access.s) /\ Real(disk.refresh)
    /\ Real(refresh.s)
    /\ \A f \in Fibers :
         /\ Real(fiber[f].cred.access.s) /\ Real(fiber[f].cred.refresh) /\ Real(fiber[f].tok.s)
         /\ fiber[f].status = "ok" => fiber[f].tok # NoToken

SigningIn(f) == fiber[f].pc \in {"ask", "store"}
Storing(f) == fiber[f].pc = "store"

\* A patient user signs in while nothing else happens.
Alone ==
    \A f \in Fibers : SigningIn(f) =>
        /\ refresh.pc = "idle" /\ ~auth.loading /\ auth.cred.access = NoToken
        /\ \A g \in Fibers : g # f => fiber[g].pc = "idle"

\* What c names is session s and its user.
OwnerOf(s) == IF s = NoSession THEN NoUser ELSE owner[s]
Of(c, s) ==
    /\ c.access.s \in {NoSession, s}
    /\ c.refresh \in {NoSession, s}
    /\ c.user \in {NoUser, OwnerOf(s)}

OfSession(s) ==
    /\ Of(auth.cred, s) /\ Of(disk, s)
    /\ refresh.s \in {NoSession, s}
    /\ \A f \in Fibers : Of(fiber[f].cred, s) /\ fiber[f].tok.s \in {NoSession, s}

\* Between sign-ins everybody is about one session.
OneSession ==
    Unharmed /\ (\A f \in Fibers : ~Storing(f)) => \E s \in Sessions \cup {NoSession} : OfSession(s)

Whole(c) == c.access # NoToken /\ c.refresh = c.access.s /\ c.user = owner[c.access.s]

\* setSession: some keys are written, the others are as they were.
Stores ==
    \A f \in Fibers : Storing(f) =>
        LET c == fiber[f].cred IN
        /\ Whole(c)
        /\ \A k \in Keys \ fiber[f].todo : disk[k] = c[k]
        /\ torn = 0 /\ ~revived => \A k \in fiber[f].todo : disk[k] = Nobody[k]
        /\ Unharmed /\ fiber[f].todo = Keys => \E s \in Sessions \cup {NoSession} : Of(disk, s)

\* Nothing is left of a session that has ended.
Wiping(f) == fiber[f].pc = "wipe"
Tidy ==
    torn = 0 /\ ~revived /\ (\A f \in Fibers : ~Storing(f)) =>
        /\ \A f \in Fibers : Wiping(f) => \A k \in Keys \ fiber[f].todo : disk[k] = Nobody[k]
        /\ (disk.access = NoToken => disk = Nobody) \/ \E f \in Fibers : Wiping(f) /\ fiber[f].todo # Keys
        /\ ~auth.loading /\ auth.cred.access = NoToken => disk = Nobody

SessionInv == TypeOK /\ Idles /\ RealSessions /\ Alone /\ OneSession /\ Stores /\ Tidy /\ CacheIsOwn

----------------------------------------------------------------------------
(* Expiry                                                                  *)

\* No token is newer than the last one issued.
Old(tok) == tok.s # NoSession => tok.n <= issued[tok.s]
NoneNewer ==
    /\ Old(auth.cred.access) /\ Old(disk.access) /\ Old(refresh.tok)
    /\ \A f \in Fibers : Old(fiber[f].cred.access) /\ Old(fiber[f].tok)

\* A token nobody was told of yet.
Fresh ==
    refresh.pc \in {"write", "set"} =>
        /\ refresh.tok \in valid /\ refresh.tok # auth.cred.access
        /\ \A f \in Fibers : refresh.tok # fiber[f].cred.access /\ refresh.tok # fiber[f].tok

\* Without troubles only a revoked session comes to an end.
Calm == faults = 0 /\ crashes = 0 /\ ~revived
Ended(q) == auth.cred.access = NoToken \/ q.pc = "wipe" \/ (q.pc = "answered" /\ q.status = "401")
Sound(q) ==
    q.pc \notin {"idle", "ask", "store"} =>
        /\ q.cred.refresh # NoSession
        /\ Ended(q) => q.cred.refresh \in revoked
EndsRevoked ==
    Calm =>
        /\ auth.loading => disk = Nobody
        /\ auth.cred.access = NoToken <=> auth.cred.refresh = NoSession
        /\ \A f \in Fibers : Sound(fiber[f])

RetriesValid == \A f \in Fibers : fiber[f].pc = "resent" => fiber[f].tok \in valid

ExpiryInv == NoneNewer /\ Fresh /\ RetriesValid /\ EndsRevoked

----------------------------------------------------------------------------
(* Tokens, credentials and calls                                           *)

Refreshes == [pc : {"idle", "sent", "write", "set"}, s : Sessions \cup {NoSession}, tok : Tokens \cup {NoToken}]
FiberRecords ==
    [pc : Pcs, op : Ops, cred : Credentials, tok : Tokens \cup {NoToken}, todo : SUBSET Keys,
     status : {"none", "ok", "401", "fail"}, orphan : BOOLEAN]

LEMMA TokenFacts ==
  /\ NoToken.s = NoSession /\ NoSession = 0 /\ NoSession \notin Sessions /\ NoToken \notin Tokens
  /\ \A tok \in Tokens : tok.s \in Sessions /\ tok.s # NoSession /\ tok # NoToken /\ tok.n \in Nat
  /\ \A tok \in Tokens \cup {NoToken} : tok.s \in Sessions \cup {NoSession} /\ (tok.s = NoSession <=> tok = NoToken)
<1>1. NoToken.s = NoSession /\ NoSession = 0
  BY DEF NoToken, NoSession
<1>2. NoSession \notin Sessions
  BY SessionAssumption DEF NoSession, Sessions
<1>3. \A tok \in Tokens : tok.s \in Sessions /\ tok.n \in Nat
  BY DEF Tokens
<1> QED
  BY <1>1, <1>2, <1>3

LEMMA NobodyFacts ==
  /\ Nobody \in Credentials /\ Nobody.access = NoToken /\ Nobody.refresh = NoSession /\ Nobody.user = NoUser
  /\ \A k \in Keys : Nobody[k] = IF k = "access" THEN NoToken ELSE IF k = "refresh" THEN NoSession ELSE NoUser
  BY DEF Nobody, Credentials, Keys

LEMMA IdleFacts ==
  /\ Idle \in FiberRecords /\ Idle.pc = "idle" /\ Idle.cred = Nobody /\ Idle.tok = NoToken
  /\ Idle.op = "query" /\ Idle.todo = {} /\ Idle.status = "none" /\ Idle.orphan = FALSE
  BY NobodyFacts DEF Idle, FiberRecords, Pcs, Ops

LEMMA NoRefreshFacts == NoRefresh \in Refreshes /\ NoRefresh.pc = "idle" /\ NoRefresh.s = NoSession /\ NoRefresh.tok = NoToken
  BY DEF NoRefresh, Refreshes

\* The state but for the calls.
RestTyped ==
    /\ owner \in [Sessions -> Users \cup {NoUser}]
    /\ revoked \subseteq Sessions
    /\ issued \in [Sessions -> Nat]
    /\ valid \subseteq Tokens
    /\ disk \in Credentials
    /\ auth \in [loading : BOOLEAN, cred : Credentials]
    /\ refresh \in Refreshes
    /\ cache \in [Users \cup {NoUser} -> SUBSET Users]
BoundsTyped ==
    /\ revived \in BOOLEAN
    /\ torn \in 0..MaxTroubles
    /\ expiries \in 0..MaxExpiries /\ {crashes, faults, crashes + faults} \subseteq 0..MaxTroubles

LEMMA TypeParts ==
  /\ TypeOK <=> RestTyped /\ BoundsTyped /\ fiber \in [Fibers -> FiberRecords]
  /\ TypeOK' <=> RestTyped' /\ BoundsTyped' /\ fiber' \in [Fibers -> FiberRecords]
  BY DEF TypeOK, RestTyped, BoundsTyped, FiberRecords, Refreshes

\* What is in a credential, a call and a refresh.
LEMMA Fields ==
  /\ \A c \in Credentials : /\ c.access \in Tokens \cup {NoToken} /\ c.access.s \in Sessions \cup {NoSession}
                            /\ c.refresh \in Sessions \cup {NoSession} /\ c.user \in Users \cup {NoUser}
  /\ \A q \in FiberRecords : /\ q.pc \in Pcs /\ q.cred \in Credentials /\ q.tok \in Tokens \cup {NoToken}
                             /\ q.tok.s \in Sessions \cup {NoSession} /\ q.todo \subseteq Keys
  /\ \A h \in Refreshes : h.s \in Sessions \cup {NoSession} /\ h.tok \in Tokens \cup {NoToken}
  BY TokenFacts DEF Credentials, FiberRecords, Refreshes

\* A step of one call.
LEMMA OneFiber ==
  ASSUME fiber \in [Fibers -> FiberRecords], NEW f \in Fibers, NEW q \in FiberRecords, fiber' = [fiber EXCEPT ![f] = q]
  PROVE  /\ fiber' \in [Fibers -> FiberRecords] /\ fiber'[f] = q
         /\ \A g \in Fibers : g # f => fiber'[g] = fiber[g]
  OBVIOUS

----------------------------------------------------------------------------
(* What one session leads to                                               *)

\* A credential put together from those that are held.
Part(c) ==
    /\ c.access.s \in {NoSession, auth.cred.access.s, disk.access.s, refresh.s}
    /\ c.refresh \in {NoSession, auth.cred.refresh, disk.refresh}
    /\ c.user \in {NoUser, auth.cred.user, disk.user}

\* A step after which nothing is held that was not held before.
Derived ==
    /\ UNCHANGED owner
    /\ Part(auth'.cred) /\ Part(disk')
    /\ refresh'.s \in {NoSession, refresh.s, auth.cred.refresh}
    /\ \A tok \in valid' : tok \in valid \/ tok.s = refresh.s
    /\ \A g \in Fibers :
         /\ fiber'[g].cred = fiber[g].cred \/ Part(fiber'[g].cred)
         /\ fiber'[g].tok.s \in {NoSession, fiber[g].tok.s, fiber[g].cred.access.s, auth.cred.access.s, refresh.s}
         /\ fiber'[g].status = "ok" => fiber'[g].tok # NoToken

LEMMA DerivedKeeps ==
  ASSUME RealSessions, Derived
  PROVE  RealSessions' /\ \A s : OfSession(s) => OfSession(s)'
<1> USE DEF Derived, Part, NoSession
<1>1. RealSessions'
  <2> DEFINE R(s) == s # 0 => owner[s] \in Users
  <2>1. /\ \A tok \in valid : R(tok.s)
        /\ R(auth.cred.access.s) /\ R(auth.cred.refresh) /\ R(disk.access.s) /\ R(disk.refresh) /\ R(refresh.s) /\ R(0)
        /\ \A f \in Fibers : R(fiber[f].cred.access.s) /\ R(fiber[f].cred.refresh) /\ R(fiber[f].tok.s)
    BY DEF RealSessions, Real
  <2>2. \A s : (s # 0 => owner'[s] \in Users) <=> R(s)
    OBVIOUS
  <2> HIDE DEF R
  <2>3. \A tok \in valid' : R(tok.s)
    BY <2>1
  <2>4. R(auth'.cred.access.s) /\ R(auth'.cred.refresh) /\ R(disk'.access.s) /\ R(disk'.refresh) /\ R(refresh'.s)
    BY <2>1
  <2>5. \A f \in Fibers : R(fiber'[f].cred.access.s) /\ R(fiber'[f].cred.refresh) /\ R(fiber'[f].tok.s)
    BY <2>1
  <2> QED
    BY <2>2, <2>3, <2>4, <2>5 DEF RealSessions, Real
<1>2. ASSUME NEW s, OfSession(s) PROVE OfSession(s)'
  <2>1. OwnerOf(s)' = OwnerOf(s)
    BY DEF OwnerOf
  <2>2. Of(auth.cred, s)' /\ Of(disk, s)'
    BY <1>2, <2>1 DEF OfSession, Of
  <2>3. refresh'.s \in {NoSession, s}
    BY <1>2 DEF OfSession, Of
  <2>4. \A g \in Fibers : Of(fiber[g].cred, s)' /\ fiber'[g].tok.s \in {NoSession, s}
    BY <1>2, <2>1 DEF OfSession, Of
  <2> QED
    BY <2>2, <2>3, <2>4 DEF OfSession
<1> QED
  BY <1>1, <1>2

\* The steps of one call that leave the store and the provider alone.
LEMMA CallStep ==
  ASSUME SessionInv, NEW f \in Fibers, NEW q \in FiberRecords, fiber' = [fiber EXCEPT ![f] = q],
         UNCHANGED <<owner, issued, valid, disk, auth, torn, revived, crashes>>, RestTyped', BoundsTyped', CacheIsOwn',
         q.pc = "idle" => q = Idle /\ fiber[f].pc # "idle", q.pc # "store", q.pc = "wipe" => q.todo = Keys,
         fiber[f].pc \notin {"store", "wipe"}, ~auth.loading,
         q.pc = "ask" => Quiet /\ auth.cred.access = NoToken,
         q.pc \notin {"ask", "idle"} => fiber[f].pc \notin {"idle", "ask"} \/ auth.cred.access # NoToken,
         \/ UNCHANGED refresh
         \/ /\ q.pc = "await" /\ refresh'.pc = "sent" /\ refresh'.s = auth.cred.refresh
            /\ auth.cred.refresh # NoSession /\ refresh'.tok = NoToken,
         q.cred \in {fiber[f].cred, Nobody, auth.cred},
         q.tok \in {NoToken, fiber[f].tok, fiber[f].cred.access, auth.cred.access},
         q.status = "ok" => q.tok # NoToken
  PROVE  SessionInv'
<1>1. TypeOK /\ Idles /\ RealSessions /\ Alone /\ OneSession /\ Stores /\ Tidy
  BY DEF SessionInv
<1>2. RestTyped /\ fiber \in [Fibers -> FiberRecords]
  BY <1>1, TypeParts
<1>3. /\ fiber' \in [Fibers -> FiberRecords] /\ fiber'[f] = q
      /\ \A g \in Fibers : g # f => fiber'[g] = fiber[g]
  BY <1>2, OneFiber
<1>4. TypeOK'
  BY <1>3, TypeParts
<1>5. Idles'
  BY <1>1, <1>3 DEF Idles
<1>6. Derived
  <2>1. Nobody.access.s = NoSession /\ Nobody.refresh = NoSession /\ Nobody.user = NoUser /\ NoToken.s = NoSession
    BY NobodyFacts, TokenFacts
  <2>2. \A g \in Fibers : fiber[g].status = "ok" => fiber[g].tok # NoToken
    BY <1>1 DEF RealSessions
  <2> QED
    BY <1>3, <2>1, <2>2 DEF Derived, Part
<1>7. RealSessions' /\ \A s : OfSession(s) => OfSession(s)'
  BY <1>1, <1>6, DerivedKeeps
<1>8. \A g \in Fibers : ~Storing(g) /\ ~Storing(g)'
  <2>1. CASE fiber[f].pc # "idle"
    BY <1>1, <1>3, <2>1 DEF Alone, SigningIn, Storing
  <2> QED
    BY <1>1, <1>3, <2>1 DEF Alone, SigningIn, Storing, Quiet
<1>9. Alone'
  BY <1>1, <1>3 DEF Alone, SigningIn, Quiet
<1>10. OneSession'
  BY <1>1, <1>7, <1>8 DEF OneSession, Unharmed
<1>11. Stores'
  BY <1>8 DEF Stores
<1>12. Tidy'
  <2>1. \A g \in Fibers : /\ Wiping(g)' => fiber'[g].todo = Keys \/ (Wiping(g) /\ fiber'[g] = fiber[g])
                          /\ Wiping(g) => Wiping(g)' /\ fiber'[g] = fiber[g]
    BY <1>3 DEF Wiping
  <2> QED
    BY <1>1, <1>8, <2>1 DEF Tidy
<1> QED
  BY <1>4, <1>5, <1>7, <1>9, <1>10, <1>11, <1>12 DEF SessionInv

\* What is true whenever a call is under way.
LEMMA UnderWay ==
  ASSUME SessionInv, NEW f \in Fibers, fiber[f].pc # "idle"
  PROVE  /\ ~auth.loading /\ fiber[f] \in FiberRecords
         /\ fiber[f].pc # "store" => \A g \in Fibers : ~Storing(g)
<1>1. TypeOK /\ Idles /\ Alone
  BY DEF SessionInv
<1> QED
  BY <1>1, TypeParts DEF Idles, Quiet, Alone, SigningIn, Storing

\* Typing of the parts a call can change.
LEMMA FailTyped ==
  ASSUME BoundsTyped, UNCHANGED bounds \/ Fail
  PROVE  BoundsTyped' /\ UNCHANGED <<torn, revived, crashes>>
  BY SessionAssumption DEF BoundsTyped, bounds, Fail

LEMMA SignInKeeps ==
  ASSUME SessionInv, Patient, NEW f \in Fibers, SignIn(f)
  PROVE  SessionInv'
<1> DEFINE q == [Idle EXCEPT !.pc = "ask", !.op = "signin"]
<1>1. q \in FiberRecords /\ q.pc = "ask" /\ q.cred = Nobody /\ q.tok = NoToken /\ q.status = "none"
  BY IdleFacts DEF FiberRecords, Pcs, Ops
<1>2. RestTyped /\ BoundsTyped /\ CacheIsOwn
  BY TypeParts DEF SessionInv
<1>3. fiber' = [fiber EXCEPT ![f] = q] /\ UNCHANGED <<server, disk, auth, refresh, cache, bounds>>
  BY DEF SignIn
<1>4. UNCHANGED <<owner, revoked, issued, valid, torn, revived, crashes, faults, expiries>>
  BY <1>3 DEF server, bounds
<1>5. RestTyped' /\ BoundsTyped' /\ CacheIsOwn'
  BY <1>2, <1>3, <1>4 DEF RestTyped, BoundsTyped, CacheIsOwn, Unharmed
<1>6. fiber[f].pc = "idle" /\ ~auth.loading /\ Quiet /\ auth.cred.access = NoToken
  BY DEF SignIn, SignedIn
<1> HIDE DEF q
<1> QED
  BY <1>1, <1>3, <1>4, <1>5, <1>6, CallStep

LEMMA RefuseKeeps ==
  ASSUME SessionInv, NEW f \in Fibers, Refuse(f)
  PROVE  SessionInv'
<1>1. RestTyped /\ BoundsTyped /\ CacheIsOwn
  BY TypeParts DEF SessionInv
<1>2. /\ fiber' = [fiber EXCEPT ![f] = Idle] /\ UNCHANGED <<server, disk, auth, refresh, cache, bounds>>
      /\ fiber[f].pc = "ask"
  BY DEF Refuse
<1>3. UNCHANGED <<owner, revoked, issued, valid, torn, revived, crashes, faults, expiries>>
  BY <1>2 DEF server, bounds
<1>4. RestTyped' /\ BoundsTyped' /\ CacheIsOwn'
  BY <1>1, <1>2, <1>3 DEF RestTyped, BoundsTyped, CacheIsOwn, Unharmed
<1>5. ~auth.loading
  BY <1>2, UnderWay
<1> QED
  BY <1>2, <1>3, <1>4, <1>5, IdleFacts, CallStep

LEMMA SignOutKeeps ==
  ASSUME SessionInv, NEW f \in Fibers, SignOut(f)
  PROVE  SessionInv'
<1> DEFINE q == [Idle EXCEPT !.pc = "logout", !.op = "signout", !.cred = auth.cred]
<1>1. RestTyped /\ BoundsTyped /\ CacheIsOwn
  BY TypeParts DEF SessionInv
<1>2. auth.cred \in Credentials
  BY <1>1 DEF RestTyped
<1>3. q \in FiberRecords /\ q.pc = "logout" /\ q.cred = auth.cred /\ q.tok = NoToken /\ q.status = "none"
  BY <1>2, IdleFacts DEF FiberRecords, Pcs, Ops
<1>4. fiber' = [fiber EXCEPT ![f] = q] /\ UNCHANGED <<server, disk, auth, refresh, cache, bounds>>
  BY DEF SignOut
<1>5. UNCHANGED <<owner, revoked, issued, valid, torn, revived, crashes, faults, expiries>>
  BY <1>4 DEF server, bounds
<1>6. RestTyped' /\ BoundsTyped' /\ CacheIsOwn'
  BY <1>1, <1>4, <1>5 DEF RestTyped, BoundsTyped, CacheIsOwn, Unharmed
<1>7. fiber[f].pc = "idle" /\ ~auth.loading /\ auth.cred.access # NoToken
  BY DEF SignOut, SignedIn
<1> HIDE DEF q
<1> QED
  BY <1>3, <1>4, <1>5, <1>6, <1>7, CallStep

LEMMA LogoutKeeps ==
  ASSUME SessionInv, NEW f \in Fibers, Logout(f)
  PROVE  SessionInv'
<1> DEFINE q == [fiber[f] EXCEPT !.pc = "wipe", !.todo = Keys]
<1>1. RestTyped /\ BoundsTyped /\ CacheIsOwn /\ fiber \in [Fibers -> FiberRecords] /\ RealSessions
  BY TypeParts DEF SessionInv
<1>2. fiber[f].pc = "logout" /\ fiber' = [fiber EXCEPT ![f].pc = "wipe", ![f].todo = Keys]
  BY DEF Logout
<1>3. /\ q \in FiberRecords /\ q.pc = "wipe" /\ q.todo = Keys /\ q.cred = fiber[f].cred /\ q.tok = fiber[f].tok
      /\ q.status = "ok" => q.tok # NoToken
  BY <1>1 DEF FiberRecords, Pcs, RealSessions
<1>4. fiber' = [fiber EXCEPT ![f] = q] 
  BY <1>1, <1>2 DEF FiberRecords
<1>5. UNCHANGED <<owner, issued, valid, disk, auth, refresh, cache>> /\ (UNCHANGED bounds \/ Fail) /\ revoked' \subseteq revoked \cup {fiber[f].cred.refresh}
      /\ (fiber[f].cred.refresh = NoSession => revoked' = revoked)
  BY DEF Logout
<1>6. revoked' \subseteq Sessions
  BY <1>1, <1>5, Fields DEF RestTyped
<1>7. BoundsTyped' /\ UNCHANGED <<torn, revived, crashes>>
  BY <1>1, <1>5, FailTyped
<1>8. RestTyped' /\ CacheIsOwn'
  BY <1>1, <1>5, <1>6, <1>7 DEF RestTyped, CacheIsOwn, Unharmed
<1>9. ~auth.loading
  BY <1>2, UnderWay
<1> HIDE DEF q
<1> QED
  BY <1>2, <1>3, <1>4, <1>5, <1>7, <1>8, <1>9, CallStep

LEMMA CallKeeps ==
  ASSUME SessionInv, NEW f \in Fibers, NEW op \in Ops, Call(f, op)
  PROVE  SessionInv'
<1> DEFINE q == [Idle EXCEPT !.pc = "sent", !.op = op, !.cred = auth.cred, !.tok = auth.cred.access]
<1>1. RestTyped /\ BoundsTyped /\ CacheIsOwn
  BY TypeParts DEF SessionInv
<1>2. auth.cred \in Credentials /\ auth.cred.access \in Tokens \cup {NoToken}
  BY <1>1, Fields DEF RestTyped
<1>3. q \in FiberRecords /\ q.pc = "sent" /\ q.cred = auth.cred /\ q.tok = auth.cred.access
  BY <1>2, IdleFacts DEF FiberRecords, Pcs, Ops
<1>4. fiber' = [fiber EXCEPT ![f] = q] /\ UNCHANGED <<server, disk, auth, refresh, cache, bounds>>
  BY DEF Call
<1>5. UNCHANGED <<owner, revoked, issued, valid, torn, revived, crashes, faults, expiries>>
  BY <1>4 DEF server, bounds
<1>6. RestTyped' /\ BoundsTyped' /\ CacheIsOwn'
  BY <1>1, <1>4, <1>5 DEF RestTyped, BoundsTyped, CacheIsOwn, Unharmed
<1>7. fiber[f].pc = "idle" /\ ~auth.loading /\ auth.cred.access # NoToken
  BY DEF Call, SignedIn
<1> HIDE DEF q
<1> QED
  BY <1>3, <1>4, <1>5, <1>6, <1>7, CallStep

LEMMA ServeKeeps ==
  ASSUME SessionInv, NEW f \in Fibers, Serve(f)
  PROVE  SessionInv'
<1>1. RestTyped /\ BoundsTyped /\ CacheIsOwn /\ fiber \in [Fibers -> FiberRecords] /\ RealSessions
  BY TypeParts DEF SessionInv
<1>2. fiber[f].pc \in {"sent", "resent"} /\ ~auth.loading /\ fiber[f] \in FiberRecords
  BY UnderWay DEF Serve
<1>3. PICK st \in {"ok", "401", "fail"}, p \in {"denied", "answered"} :
          fiber' = [fiber EXCEPT ![f] = [fiber[f] EXCEPT !.status = st, !.pc = p]] /\ (st = "ok" => fiber[f].tok \in valid)
  <2>1. fiber[f].tok \in valid
        \/ \E st \in {"401", "fail"}, p \in {"denied", "answered"} : fiber' = [fiber EXCEPT ![f].status = st, ![f].pc = p]
    BY DEF Serve
  <2>2. \E st \in {"ok", "401", "fail"}, p \in {"denied", "answered"} :
            fiber' = [fiber EXCEPT ![f].status = st, ![f].pc = p] /\ (st = "ok" => fiber[f].tok \in valid)
    BY <2>1 DEF Serve
  <2>3. PICK st \in {"ok", "401", "fail"}, p \in {"denied", "answered"} :
            fiber' = [fiber EXCEPT ![f].status = st, ![f].pc = p] /\ (st = "ok" => fiber[f].tok \in valid)
    BY <2>2
  <2>4. fiber' = [fiber EXCEPT ![f] = [fiber[f] EXCEPT !.status = st, !.pc = p]]
    BY <1>1, <1>2, <2>3 DEF FiberRecords
  <2> QED
    BY <2>3, <2>4
<1> DEFINE q == [fiber[f] EXCEPT !.status = st, !.pc = p]
<1>4. /\ q \in FiberRecords /\ q.pc \in {"denied", "answered"} /\ q.cred = fiber[f].cred /\ q.tok = fiber[f].tok
      /\ fiber' = [fiber EXCEPT ![f] = q]
  BY <1>2, <1>3 DEF FiberRecords, Pcs
<1>5. q.status = "ok" => q.tok # NoToken
  BY <1>1, <1>2, <1>3, TokenFacts DEF RestTyped, FiberRecords
<1>6. UNCHANGED <<owner, issued, valid, disk, auth, refresh, cache>> /\ (UNCHANGED bounds \/ Fail)
      /\ revoked' \subseteq revoked \cup Sessions
  BY DEF Serve
<1>7. BoundsTyped' /\ UNCHANGED <<torn, revived, crashes>>
  BY <1>1, <1>6, FailTyped
<1>8. RestTyped' /\ CacheIsOwn'
  BY <1>1, <1>6, <1>7 DEF RestTyped, CacheIsOwn, Unharmed
<1> HIDE DEF q
<1> QED
  BY <1>2, <1>4, <1>5, <1>6, <1>7, <1>8, CallStep

LEMMA AskRefreshKeeps ==
  ASSUME SessionInv, NEW f \in Fibers, AskRefresh(f)
  PROVE  SessionInv'
<1>1. RestTyped /\ BoundsTyped /\ CacheIsOwn /\ fiber \in [Fibers -> FiberRecords] /\ RealSessions
  BY TypeParts DEF SessionInv
<1>2. fiber[f].pc = "denied" /\ ~auth.loading /\ fiber[f] \in FiberRecords /\ UNCHANGED <<server, disk, auth, cache, bounds>>
  BY UnderWay DEF AskRefresh
<1>3. UNCHANGED <<owner, revoked, issued, valid, torn, revived, crashes, faults, expiries>>
  BY <1>2 DEF server, bounds
<1>4. auth.cred.refresh \in Sessions \cup {NoSession}
  BY <1>1, Fields DEF RestTyped
<1>5. refresh' \in Refreshes
  BY <1>1, <1>4 DEF AskRefresh, Refreshes, RestTyped
<1>6. RestTyped' /\ BoundsTyped' /\ CacheIsOwn'
  BY <1>1, <1>2, <1>3, <1>5 DEF RestTyped, BoundsTyped, CacheIsOwn, Unharmed
<1>7. /\ [fiber[f] EXCEPT !.pc = "answered"] \in FiberRecords /\ [fiber[f] EXCEPT !.pc = "await"] \in FiberRecords
      /\ [fiber EXCEPT ![f].pc = "answered"] = [fiber EXCEPT ![f] = [fiber[f] EXCEPT !.pc = "answered"]]
      /\ [fiber EXCEPT ![f].pc = "await"] = [fiber EXCEPT ![f] = [fiber[f] EXCEPT !.pc = "await"]]
  BY <1>1, <1>2 DEF FiberRecords, Pcs
<1>8. CASE refresh.pc = "idle" /\ auth.cred.refresh = NoSession
  <2> DEFINE q == [fiber[f] EXCEPT !.pc = "answered"]
  <2>1. q \in FiberRecords /\ q.pc = "answered" /\ q.cred = fiber[f].cred /\ q.tok = fiber[f].tok /\ q.status = fiber[f].status
    BY <1>2, <1>7 DEF FiberRecords
  <2>2. fiber' = [fiber EXCEPT ![f] = q] /\ UNCHANGED refresh
    BY <1>7, <1>8 DEF AskRefresh
  <2>3. q.status = "ok" => q.tok # NoToken
    BY <1>1, <2>1 DEF RealSessions
  <2> HIDE DEF q
  <2> QED
    BY <1>2, <1>3, <1>6, <2>1, <2>2, <2>3, CallStep
<1>9. CASE ~(refresh.pc = "idle" /\ auth.cred.refresh = NoSession)
  <2> DEFINE q == [fiber[f] EXCEPT !.pc = "await"]
  <2>1. q \in FiberRecords /\ q.pc = "await" /\ q.cred = fiber[f].cred /\ q.tok = fiber[f].tok /\ q.status = fiber[f].status
    BY <1>2, <1>7 DEF FiberRecords
  <2>4. q.status = "ok" => q.tok # NoToken
    BY <1>1, <2>1 DEF RealSessions
  <2>2. fiber' = [fiber EXCEPT ![f] = q]
    BY <1>7, <1>9 DEF AskRefresh
  <2>3. \/ UNCHANGED refresh
        \/ refresh'.pc = "sent" /\ refresh'.s = auth.cred.refresh /\ auth.cred.refresh # NoSession /\ refresh'.tok = NoToken
    BY <1>9 DEF AskRefresh
  <2> HIDE DEF q
  <2> QED
    BY <1>2, <1>3, <1>6, <2>1, <2>2, <2>3, <2>4, CallStep
<1> QED
  BY <1>8, <1>9

\* An answer was authorised with a token of the user of the render that asked.
LEMMA AnswerIsOwn ==
  ASSUME SessionInv, NEW f \in Fibers, fiber[f].pc = "answered", fiber[f].status = "ok"
  PROVE  /\ owner[fiber[f].tok.s] \in Users
         /\ Unharmed /\ fiber[f].cred.user # NoUser => owner[fiber[f].tok.s] = fiber[f].cred.user
<1>1. TypeOK /\ RealSessions /\ OneSession
  BY DEF SessionInv
<1>2. fiber[f] \in FiberRecords /\ \A g \in Fibers : ~Storing(g)
  BY UnderWay
<1>3. fiber[f].tok # NoToken /\ Real(fiber[f].tok.s)
  BY <1>1 DEF RealSessions
<1>4. fiber[f].tok \in Tokens \cup {NoToken} /\ fiber[f].tok.s # NoSession
  BY <1>2, <1>3, Fields, TokenFacts
<1>5. ASSUME Unharmed, fiber[f].cred.user # NoUser PROVE owner[fiber[f].tok.s] = fiber[f].cred.user
  <2>1. PICK s \in Sessions \cup {NoSession} : OfSession(s)
    BY <1>1, <1>2, <1>5 DEF OneSession
  <2>2. fiber[f].tok.s = s /\ fiber[f].cred.user = OwnerOf(s)
    BY <1>4, <1>5, <2>1 DEF OfSession, Of
  <2> QED
    BY <1>4, <2>2 DEF OwnerOf
<1> QED
  BY <1>3, <1>4, <1>5 DEF Real

LEMMA TakeKeeps ==
  ASSUME SessionInv, NEW f \in Fibers, Take(f)
  PROVE  SessionInv'
<1>1. RestTyped /\ BoundsTyped /\ CacheIsOwn /\ fiber \in [Fibers -> FiberRecords] /\ RealSessions
  BY TypeParts DEF SessionInv
<1>2. fiber[f].pc = "answered" /\ ~auth.loading /\ fiber[f] \in FiberRecords /\ UNCHANGED <<server, disk, auth, refresh, bounds>>
  BY UnderWay DEF Take
<1>3. UNCHANGED <<owner, revoked, issued, valid, torn, revived, crashes, faults, expiries>>
  BY <1>2 DEF server, bounds
<1>4. /\ RestTyped'
      /\ CacheIsOwn'
  <2>1. CASE cache' = cache
    BY <1>1, <1>2, <1>3, <2>1 DEF RestTyped, CacheIsOwn, Unharmed
  <2>2. CASE fiber[f].status = "ok" /\ cache' = [cache EXCEPT ![fiber[f].cred.user] = {owner[fiber[f].tok.s]}]
    <3>1. /\ owner[fiber[f].tok.s] \in Users
          /\ Unharmed /\ fiber[f].cred.user # NoUser => owner[fiber[f].tok.s] = fiber[f].cred.user
      BY <1>2, <2>2, AnswerIsOwn
    <3>2. cache' \in [Users \cup {NoUser} -> SUBSET Users]
      BY <1>1, <2>2, <3>1 DEF RestTyped
    <3>3. Unharmed' <=> Unharmed
      BY <1>3 DEF Unharmed
    <3>4. CacheIsOwn'
      BY <1>1, <2>2, <3>1, <3>3, SessionAssumption DEF CacheIsOwn, RestTyped
    <3> QED
      BY <1>1, <1>2, <1>3, <3>2, <3>4 DEF RestTyped
  <2> QED
    BY <2>1, <2>2 DEF Take
<1>5. BoundsTyped'
  BY <1>1, <1>3 DEF BoundsTyped
<1>6. CASE fiber' = [fiber EXCEPT ![f] = Idle]
  BY <1>2, <1>3, <1>4, <1>5, <1>6, IdleFacts, CallStep
<1>7. CASE fiber' = [fiber EXCEPT ![f] = [fiber[f] EXCEPT !.pc = "logout", !.tok = NoToken, !.status = "none", !.orphan = FALSE]]
  <2> DEFINE q == [fiber[f] EXCEPT !.pc = "logout", !.tok = NoToken, !.status = "none", !.orphan = FALSE]
  <2>1. q \in FiberRecords /\ q.pc = "logout" /\ q.cred = fiber[f].cred /\ q.tok = NoToken /\ q.status = "none"
    BY <1>2 DEF FiberRecords, Pcs
  <2>2. fiber' = [fiber EXCEPT ![f] = q]
    BY <1>7
  <2> HIDE DEF q
  <2> QED
    BY <1>2, <1>3, <1>4, <1>5, <2>1, <2>2, CallStep
<1> QED
  BY <1>6, <1>7 DEF Take

LEMMA RetryQueryKeeps ==
  ASSUME SessionInv, NEW f \in Fibers, RetryQuery(f)
  PROVE  SessionInv'
<1> DEFINE q == [fiber[f] EXCEPT !.pc = "sent", !.status = "none", !.tok = fiber[f].cred.access]
<1>1. RestTyped /\ BoundsTyped /\ CacheIsOwn /\ fiber \in [Fibers -> FiberRecords]
  BY TypeParts DEF SessionInv
<1>2. /\ fiber[f].pc = "answered" /\ ~auth.loading /\ fiber[f] \in FiberRecords
      /\ UNCHANGED <<server, disk, auth, refresh, cache, bounds>>
  BY UnderWay DEF RetryQuery
<1>3. UNCHANGED <<owner, revoked, issued, valid, torn, revived, crashes, faults, expiries>>
  BY <1>2 DEF server, bounds
<1>4. RestTyped' /\ BoundsTyped' /\ CacheIsOwn'
  BY <1>1, <1>2, <1>3 DEF RestTyped, BoundsTyped, CacheIsOwn, Unharmed
<1>5. fiber[f].cred.access \in Tokens \cup {NoToken}
  BY <1>2, Fields
<1>6. q \in FiberRecords /\ q.pc = "sent" /\ q.cred = fiber[f].cred /\ q.tok = fiber[f].cred.access /\ q.status = "none"
  BY <1>2, <1>5 DEF FiberRecords, Pcs
<1>7. fiber' = [fiber EXCEPT ![f] = q]
  BY <1>1, <1>2 DEF RetryQuery, FiberRecords
<1> HIDE DEF q
<1> QED
  BY <1>2, <1>3, <1>4, <1>6, <1>7, CallStep

----------------------------------------------------------------------------
(* The steps of the store, the provider and the refresh                    *)

\* Steps before and after which nobody is storing.
LEMMA DerivedStep ==
  ASSUME SessionInv, Derived, TypeOK', Idles', Alone', Tidy', CacheIsOwn', Unharmed' => Unharmed,
         \A g \in Fibers : ~Storing(g) /\ ~Storing(g)'
  PROVE  SessionInv'
<1>1. RealSessions /\ OneSession
  BY DEF SessionInv
<1>2. RealSessions' /\ \A s : OfSession(s) => OfSession(s)'
  BY <1>1, DerivedKeeps
<1>3. OneSession'
  BY <1>1, <1>2 DEF OneSession
<1>4. Stores'
  BY DEF Stores
<1> QED
  BY <1>2, <1>3, <1>4 DEF SessionInv

LEMMA BootstrapKeeps ==
  ASSUME SessionInv, Bootstrap
  PROVE  SessionInv'
<1>1. /\ RestTyped /\ BoundsTyped /\ fiber \in [Fibers -> FiberRecords]
      /\ Idles /\ RealSessions /\ Alone /\ Tidy /\ CacheIsOwn
  BY TypeParts DEF SessionInv
<1>2. auth.loading /\ auth'.loading = FALSE /\ auth'.cred = disk /\ UNCHANGED <<server, disk, refresh, cache, fiber, bounds>>
  BY DEF Bootstrap
<1>3. UNCHANGED <<owner, revoked, issued, valid, torn, revived, crashes, faults, expiries>>
  BY <1>2 DEF server, bounds
<1>4. Quiet /\ refresh = NoRefresh /\ \A f \in Fibers : fiber[f] = Idle
  BY <1>1, <1>2 DEF Idles, Quiet
<1>5. TypeOK'
  BY <1>1, <1>2, <1>3, TypeParts DEF RestTyped, BoundsTyped, Bootstrap
<1>6. Idles' /\ Alone' /\ CacheIsOwn' /\ \A g \in Fibers : ~Storing(g) /\ ~Storing(g)'
  BY <1>1, <1>2, <1>3, <1>4, IdleFacts DEF Idles, Alone, SigningIn, Storing, CacheIsOwn, Unharmed
<1>7. Derived
  BY <1>1, <1>2, <1>3, <1>4 DEF Derived, Part, RealSessions
<1>8. Tidy'
  BY <1>1, <1>2, <1>3, <1>4, IdleFacts DEF Tidy, Wiping, Storing
<1> QED
  BY <1>3, <1>5, <1>6, <1>7, <1>8, DerivedStep DEF Unharmed

LEMMA WipeKeeps ==
  ASSUME SessionInv, NEW f \in Fibers, NEW k \in Keys, Wipe(f, k)
  PROVE  SessionInv'
<1>1. /\ RestTyped /\ BoundsTyped /\ fiber \in [Fibers -> FiberRecords]
      /\ Idles /\ RealSessions /\ Alone /\ Tidy /\ CacheIsOwn
  BY TypeParts DEF SessionInv
<1>2. /\ fiber[f].pc = "wipe" /\ disk' = [disk EXCEPT ![k] = Nobody[k]]
      /\ fiber' = [fiber EXCEPT ![f].todo = @ \ {k}] /\ UNCHANGED <<server, auth, refresh, cache, bounds>>
  BY DEF Wipe
<1>3. UNCHANGED <<owner, revoked, issued, valid, torn, revived, crashes, faults, expiries>>
  BY <1>2 DEF server, bounds
<1>4. ~auth.loading /\ fiber[f] \in FiberRecords /\ \A g \in Fibers : ~Storing(g)
  BY <1>2, UnderWay
<1>5. /\ fiber' \in [Fibers -> FiberRecords]
      /\ \A g \in Fibers : g # f => fiber'[g] = fiber[g]
      /\ fiber'[f].pc = "wipe" /\ fiber'[f].cred = fiber[f].cred /\ fiber'[f].tok = fiber[f].tok
      /\ fiber'[f].status = fiber[f].status /\ fiber'[f].todo = fiber[f].todo \ {k}
  BY <1>1, <1>2 DEF FiberRecords
<1>6. /\ disk' \in Credentials /\ disk'[k] = Nobody[k] /\ \A j \in Keys \ {k} : disk'[j] = disk[j]
      /\ disk'.access \in {NoToken, disk.access} /\ disk'.refresh \in {NoSession, disk.refresh}
      /\ disk'.user \in {NoUser, disk.user}
  BY <1>1, <1>2, NobodyFacts DEF RestTyped, Credentials, Keys
<1>7. TypeOK'
  BY <1>1, <1>2, <1>3, <1>5, <1>6, TypeParts DEF RestTyped, BoundsTyped
<1>8. \A g \in Fibers : ~Storing(g)'
  BY <1>4, <1>5 DEF Storing
<1>9. Idles' /\ Alone' /\ CacheIsOwn'
  <2>1. Idles'
    BY <1>1, <1>2, <1>3, <1>5 DEF Idles, Quiet
  <2>2. Alone'
    BY <1>1, <1>2, <1>3, <1>5 DEF Alone, SigningIn
  <2>3. CacheIsOwn'
    BY <1>1, <1>2, <1>3, <1>5 DEF CacheIsOwn, Unharmed
  <2> QED
    BY <2>1, <2>2, <2>3
<1>10. Derived
  <2>1. Part(auth'.cred)
    BY <1>2 DEF Part
  <2>2. Part(disk')
    BY <1>6, TokenFacts DEF Part
  <2>3. /\ UNCHANGED owner /\ refresh'.s \in {NoSession, refresh.s, auth.cred.refresh}
        /\ \A tok \in valid' : tok \in valid \/ tok.s = refresh.s
    BY <1>2, <1>3
  <2>4. ASSUME NEW g \in Fibers
        PROVE  /\ fiber'[g].cred = fiber[g].cred /\ fiber'[g].tok = fiber[g].tok
               /\ fiber'[g].status = "ok" => fiber'[g].tok # NoToken
    BY <1>1, <1>5 DEF RealSessions
  <2> QED
    BY <2>1, <2>2, <2>3, <2>4 DEF Derived
<1>11. disk = Nobody => disk' = Nobody
  BY <1>2, NobodyFacts DEF Nobody, Keys
<1>12. Tidy'
  <2> SUFFICES ASSUME torn = 0, ~revived PROVE Tidy'
    BY <1>3 DEF Tidy
  <2>1. ASSUME NEW g \in Fibers, Wiping(g)', NEW j \in Keys \ fiber'[g].todo PROVE disk'[j] = Nobody[j]
    <3>1. \A i \in Keys \ fiber[g].todo : disk[i] = Nobody[i]
      BY <1>1, <1>2, <1>4, <1>5, <2>1 DEF Tidy, Wiping
    <3>2. j = k \/ j \in Keys \ fiber[g].todo
      BY <1>5, <2>1
    <3> QED
      BY <1>6, <3>1, <3>2
  <2>2. Wiping(f)' /\ fiber'[f].todo # Keys
    BY <1>5 DEF Wiping
  <2> QED
    BY <1>1, <1>2, <1>4, <1>11, <2>1, <2>2 DEF Tidy
<1> QED
  BY <1>3, <1>4, <1>7, <1>8, <1>9, <1>10, <1>12, DerivedStep DEF Unharmed

\* A store without any of the three keys.
LEMMA Emptied ==
  ASSUME NEW c \in Credentials, \A k \in Keys : c[k] = Nobody[k]
  PROVE  c = Nobody
<1>1. c.access = NoToken /\ c.refresh = NoSession /\ c.user = NoUser
  BY NobodyFacts DEF Keys
<1> QED
  BY <1>1 DEF Credentials, Nobody

LEMMA ClearKeeps ==
  ASSUME SessionInv, NEW f \in Fibers, Clear(f)
  PROVE  SessionInv'
<1>1. /\ RestTyped /\ BoundsTyped /\ fiber \in [Fibers -> FiberRecords]
      /\ Idles /\ RealSessions /\ Alone /\ Tidy
  BY TypeParts DEF SessionInv
<1>2. /\ fiber[f].pc = "wipe" /\ fiber[f].todo = {}
      /\ cache' = EmptyCache /\ auth' = [loading |-> FALSE, cred |-> Nobody] /\ UNCHANGED <<server, disk, refresh, bounds>>
  BY DEF Clear
<1>3. UNCHANGED <<owner, revoked, issued, valid, torn, revived, crashes, faults, expiries>>
  BY <1>2 DEF server, bounds
<1>4. ~auth.loading /\ \A g \in Fibers : ~Storing(g)
  BY <1>2, UnderWay
<1>5. /\ fiber' \in [Fibers -> FiberRecords] /\ fiber'[f] = Idle
      /\ \A g \in Fibers : g # f => /\ fiber'[g].pc = fiber[g].pc /\ fiber'[g].cred = fiber[g].cred
                                    /\ fiber'[g].tok = fiber[g].tok /\ fiber'[g].status = fiber[g].status
                                    /\ fiber'[g].todo = fiber[g].todo
                                    /\ fiber[g].pc = "idle" => fiber'[g] = Idle
  <2>1. \A g \in Fibers : [fiber[g] EXCEPT !.orphan = @ \/ (fiber[g].op = "query" /\ fiber[g].todo = {})] \in FiberRecords
    BY <1>1 DEF FiberRecords
  <2>2. \A g \in Fibers : fiber[g].pc = "idle" => fiber[g] = Idle
    BY <1>1 DEF Idles
  <2> QED
    BY <1>1, <2>1, <2>2, IdleFacts DEF Clear, FiberRecords
<1>6. auth' \in [loading : BOOLEAN, cred : Credentials] /\ cache' \in [Users \cup {NoUser} -> SUBSET Users]
  BY <1>2, NobodyFacts DEF EmptyCache
<1>7. TypeOK'
  BY <1>1, <1>2, <1>3, <1>5, <1>6, TypeParts DEF RestTyped, BoundsTyped
<1>8. CacheIsOwn'
  BY <1>2 DEF CacheIsOwn, EmptyCache
<1>9. Idles' /\ \A g \in Fibers : ~Storing(g)'
  BY <1>1, <1>2, <1>3, <1>4, <1>5, IdleFacts DEF Idles, Storing
<1>10. Alone'
  BY <1>1, <1>2, <1>5, IdleFacts DEF Alone, SigningIn
<1>11. Derived
  BY <1>1, <1>2, <1>3, <1>5, NobodyFacts, IdleFacts, TokenFacts DEF Derived, Part, RealSessions
<1>12. Tidy'
  <2> SUFFICES ASSUME torn = 0, ~revived PROVE Tidy'
    BY <1>3 DEF Tidy
  <2>1. disk = Nobody
    BY <1>1, <1>2, <1>4, Emptied DEF Tidy, Wiping, RestTyped
  <2> QED
    BY <1>2, <2>1 DEF Tidy
<1> QED
  BY <1>3, <1>4, <1>7, <1>8, <1>9, <1>10, <1>11, <1>12, DerivedStep DEF Unharmed

\* What Resume does to the calls.
LEMMA ResumeFacts ==
  ASSUME fiber \in [Fibers -> FiberRecords], NEW tok \in Tokens \cup {NoToken}, Resume(tok)
  PROVE  /\ fiber' \in [Fibers -> FiberRecords]
         /\ \A g \in Fibers :
              /\ fiber[g].pc # "await" => fiber'[g] = fiber[g]
              /\ fiber'[g].cred = fiber[g].cred /\ fiber'[g].status = fiber[g].status /\ fiber'[g].todo = fiber[g].todo
              /\ fiber'[g].op = fiber[g].op
              /\ fiber[g].pc = "await" =>
                   \/ fiber'[g].pc = "answered" /\ fiber'[g].tok = fiber[g].tok /\ tok \in {NoToken, fiber[g].tok}
                   \/ fiber'[g].pc = "resent" /\ fiber'[g].tok = tok /\ tok # NoToken
<1>1. fiber' = [g \in Fibers |-> Resumed(fiber[g], tok)]
  BY DEF Resume
<1>2. ASSUME NEW q \in FiberRecords
      PROVE  /\ Resumed(q, tok) \in FiberRecords
             /\ q.pc # "await" => Resumed(q, tok) = q
             /\ Resumed(q, tok).cred = q.cred /\ Resumed(q, tok).status = q.status /\ Resumed(q, tok).todo = q.todo /\ Resumed(q, tok).op = q.op
             /\ q.pc = "await" => \/ Resumed(q, tok).pc = "answered" /\ Resumed(q, tok).tok = q.tok /\ tok \in {NoToken, q.tok}
                                  \/ Resumed(q, tok).pc = "resent" /\ Resumed(q, tok).tok = tok /\ tok # NoToken
  <2>1. CASE q.pc # "await"
    BY <2>1 DEF Resumed
  <2>2. CASE q.pc = "await" /\ tok \in {NoToken, q.tok}
    BY <2>2 DEF Resumed, FiberRecords, Pcs
  <2>3. CASE q.pc = "await" /\ tok \notin {NoToken, q.tok}
    BY <2>3 DEF Resumed, FiberRecords, Pcs
  <2> QED
    BY <2>1, <2>2, <2>3
<1> QED
  BY <1>1, <1>2

LEMMA GrantedKeeps ==
  ASSUME SessionInv, RefreshGranted
  PROVE  SessionInv'
<1> DEFINE tok == [s |-> refresh.s, n |-> issued[refresh.s] + 1]
<1>1. /\ RestTyped /\ BoundsTyped /\ fiber \in [Fibers -> FiberRecords]
      /\ Idles /\ RealSessions /\ Alone /\ Tidy /\ CacheIsOwn
  BY TypeParts DEF SessionInv
<1>2. /\ refresh.pc = "sent" /\ issued' = [issued EXCEPT ![refresh.s] = issued[refresh.s] + 1]
      /\ valid' = valid \cup {tok} /\ refresh' = [refresh EXCEPT !.pc = "write", !.tok = tok]
      /\ UNCHANGED <<owner, revoked, disk, auth, cache, fiber, bounds>>
  BY DEF RefreshGranted
<1>3. UNCHANGED <<torn, revived, crashes, faults, expiries>>
  BY <1>2 DEF bounds
<1>4. refresh.s \in Sessions /\ refresh \in Refreshes
  BY <1>1, <1>2, Fields DEF Idles, RestTyped
<1>5. tok \in Tokens /\ tok.s = refresh.s
  BY <1>1, <1>4 DEF Tokens, RestTyped
<1> HIDE DEF tok
<1>6. refresh' \in Refreshes /\ refresh'.pc = "write" /\ refresh'.s = refresh.s /\ refresh'.tok = tok
  BY <1>2, <1>4, <1>5 DEF Refreshes
<1>7. issued' \in [Sessions -> Nat] /\ valid' \subseteq Tokens
  BY <1>1, <1>2, <1>4, <1>5 DEF RestTyped
<1>8. TypeOK'
  BY <1>1, <1>2, <1>3, <1>6, <1>7, TypeParts DEF RestTyped, BoundsTyped
<1>9. ~auth.loading /\ \A g \in Fibers : ~SigningIn(g)
  BY <1>1, <1>2 DEF Idles, Quiet, Alone
<1>10. Idles' /\ Alone' /\ CacheIsOwn'
  BY <1>1, <1>2, <1>3, <1>5, <1>6, <1>9, TokenFacts DEF Idles, Alone, SigningIn, CacheIsOwn, Unharmed
<1>11. \A g \in Fibers : ~Storing(g) /\ ~Storing(g)'
  BY <1>2, <1>9 DEF SigningIn, Storing
<1>12. Derived
  BY <1>1, <1>2, <1>5, <1>6 DEF Derived, Part, RealSessions
<1>13. Tidy'
  BY <1>1, <1>2, <1>3, <1>11 DEF Tidy, Wiping
<1> QED
  BY <1>3, <1>8, <1>10, <1>11, <1>12, <1>13, DerivedStep DEF Unharmed

LEMMA DeniedKeeps ==
  ASSUME SessionInv, RefreshDenied
  PROVE  SessionInv'
<1>1. /\ RestTyped /\ BoundsTyped /\ fiber \in [Fibers -> FiberRecords]
      /\ Idles /\ RealSessions /\ Alone /\ Tidy /\ CacheIsOwn
  BY TypeParts DEF SessionInv
<1>2. /\ refresh.pc = "sent" /\ refresh' = NoRefresh /\ Resume(NoToken) /\ (UNCHANGED bounds \/ Fail)
      /\ UNCHANGED <<owner, revoked, issued, valid, disk, auth, cache>>
  BY DEF RefreshDenied, server
<1>3. BoundsTyped' /\ UNCHANGED <<torn, revived, crashes>>
  BY <1>1, <1>2, FailTyped
<1>4. ~auth.loading /\ \A g \in Fibers : ~SigningIn(g)
  BY <1>1, <1>2 DEF Idles, Quiet, Alone
<1>5. /\ fiber' \in [Fibers -> FiberRecords]
      /\ \A g \in Fibers :
           /\ fiber[g].pc # "await" => fiber'[g] = fiber[g]
           /\ fiber'[g].cred = fiber[g].cred /\ fiber'[g].status = fiber[g].status /\ fiber'[g].todo = fiber[g].todo
           /\ fiber[g].pc = "await" => fiber'[g].pc = "answered" /\ fiber'[g].tok = fiber[g].tok
  BY <1>1, <1>2, ResumeFacts
<1>6. TypeOK'
  BY <1>1, <1>2, <1>3, <1>5, NoRefreshFacts, TypeParts DEF RestTyped
<1>7. Idles' /\ Alone' /\ CacheIsOwn'
  BY <1>1, <1>2, <1>3, <1>4, <1>5, NoRefreshFacts DEF Idles, Alone, SigningIn, CacheIsOwn, Unharmed
<1>8. \A g \in Fibers : ~Storing(g) /\ ~Storing(g)'
  BY <1>4, <1>5 DEF SigningIn, Storing
<1>9. Derived
  BY <1>1, <1>2, <1>5, NoRefreshFacts DEF Derived, Part, RealSessions
<1>10. \A g \in Fibers : Wiping(g)' <=> Wiping(g)
  BY <1>5 DEF Wiping
<1>11. Tidy'
  BY <1>1, <1>2, <1>3, <1>5, <1>8, <1>10 DEF Tidy
<1> QED
  BY <1>3, <1>6, <1>7, <1>8, <1>9, <1>11, DerivedStep DEF Unharmed

LEMMA WriteKeeps ==
  ASSUME SessionInv, RefreshWrite
  PROVE  SessionInv'
<1>1. /\ RestTyped /\ BoundsTyped /\ fiber \in [Fibers -> FiberRecords]
      /\ Idles /\ RealSessions /\ Alone /\ Tidy /\ CacheIsOwn
  BY TypeParts DEF SessionInv
<1>2. /\ refresh.pc = "write" /\ disk' = [disk EXCEPT !.access = refresh.tok] /\ refresh' = [refresh EXCEPT !.pc = "set"]
      /\ revived' = (revived \/ disk.access = NoToken)
      /\ UNCHANGED <<owner, revoked, issued, valid, auth, cache, fiber, torn, expiries, crashes, faults>>
  BY DEF RefreshWrite, server
<1>3. refresh \in Refreshes /\ refresh.tok \in Tokens \cup {NoToken} /\ refresh.tok # NoToken /\ refresh.tok.s = refresh.s
  BY <1>1, <1>2, Fields DEF Idles, RestTyped
<1>4. /\ disk' \in Credentials /\ disk'.access = refresh.tok /\ disk'.refresh = disk.refresh /\ disk'.user = disk.user
      /\ refresh' \in Refreshes /\ refresh'.pc = "set" /\ refresh'.s = refresh.s /\ refresh'.tok = refresh.tok
      /\ \A j \in Keys \ {"access"} : disk'[j] = disk[j]
  BY <1>1, <1>2, <1>3 DEF RestTyped, Credentials, Refreshes, Keys
<1>5. TypeOK'
  BY <1>1, <1>2, <1>4, TypeParts DEF RestTyped, BoundsTyped
<1>6. ~auth.loading /\ \A g \in Fibers : ~SigningIn(g)
  BY <1>1, <1>2 DEF Idles, Quiet, Alone
<1>7. Idles' /\ Alone' /\ CacheIsOwn'
  BY <1>1, <1>2, <1>3, <1>4, <1>6 DEF Idles, Alone, SigningIn, CacheIsOwn, Unharmed, BoundsTyped
<1>8. \A g \in Fibers : ~Storing(g) /\ ~Storing(g)'
  BY <1>2, <1>6 DEF SigningIn, Storing
<1>9. Derived
  BY <1>1, <1>2, <1>3, <1>4 DEF Derived, Part, RealSessions
<1>10. Tidy'
  <2> SUFFICES ASSUME torn = 0, ~revived, disk.access # NoToken PROVE Tidy'
    BY <1>2 DEF Tidy
  <2>1. ASSUME NEW g \in Fibers, Wiping(g), NEW j \in Keys \ fiber[g].todo PROVE disk'[j] = Nobody[j]
    <3>1. disk[j] = Nobody[j]
      BY <1>1, <1>8, <2>1 DEF Tidy
    <3>2. j # "access"
      BY <3>1, NobodyFacts
    <3> QED
      BY <1>4, <2>1, <3>1, <3>2
  <2>2. auth.cred.access # NoToken
    BY <1>1, <1>6, <1>8, NobodyFacts DEF Tidy
  <2> QED
    BY <1>2, <1>3, <1>4, <2>1, <2>2 DEF Tidy, Wiping
<1>11. Unharmed' => Unharmed
  BY <1>1, <1>2 DEF Unharmed, BoundsTyped
<1> QED
  BY <1>5, <1>7, <1>8, <1>9, <1>10, <1>11, DerivedStep

LEMMA SetKeeps ==
  ASSUME SessionInv, RefreshSet
  PROVE  SessionInv'
<1>1. /\ RestTyped /\ BoundsTyped /\ fiber \in [Fibers -> FiberRecords]
      /\ Idles /\ RealSessions /\ Alone /\ Tidy /\ CacheIsOwn
  BY TypeParts DEF SessionInv
<1>2. /\ refresh.pc = "set" /\ auth' = [auth EXCEPT !.cred.access = refresh.tok] /\ refresh' = NoRefresh
      /\ Resume(refresh.tok) /\ revived' = (revived \/ auth.cred.access = NoToken)
      /\ UNCHANGED <<owner, revoked, issued, valid, disk, cache, torn, expiries, crashes, faults>>
  BY DEF RefreshSet, server
<1>3. refresh.tok \in Tokens \cup {NoToken} /\ refresh.tok # NoToken /\ refresh.tok.s = refresh.s
  BY <1>1, <1>2, Fields DEF Idles, RestTyped
<1>4. /\ auth' \in [loading : BOOLEAN, cred : Credentials] /\ auth'.loading = auth.loading
      /\ auth'.cred.access = refresh.tok /\ auth'.cred.refresh = auth.cred.refresh /\ auth'.cred.user = auth.cred.user
  BY <1>1, <1>2, <1>3 DEF RestTyped, Credentials
<1>5. /\ fiber' \in [Fibers -> FiberRecords]
      /\ \A g \in Fibers :
           /\ fiber[g].pc # "await" => fiber'[g] = fiber[g]
           /\ fiber'[g].cred = fiber[g].cred /\ fiber'[g].status = fiber[g].status /\ fiber'[g].todo = fiber[g].todo
           /\ fiber[g].pc = "await" => \/ fiber'[g].pc = "answered" /\ fiber'[g].tok = fiber[g].tok
                                       \/ fiber'[g].pc = "resent" /\ fiber'[g].tok = refresh.tok
  BY <1>1, <1>2, <1>3, ResumeFacts
<1>6. TypeOK'
  BY <1>1, <1>2, <1>4, <1>5, NoRefreshFacts, TypeParts DEF RestTyped, BoundsTyped
<1>7. ~auth.loading /\ \A g \in Fibers : ~SigningIn(g)
  BY <1>1, <1>2 DEF Idles, Quiet, Alone
<1>8. \A g \in Fibers : ~SigningIn(g)' /\ ~Storing(g) /\ ~Storing(g)'
  BY <1>5, <1>7 DEF SigningIn, Storing
<1>9. Idles' /\ Alone' /\ CacheIsOwn'
  BY <1>1, <1>2, <1>4, <1>5, <1>7, <1>8, NoRefreshFacts DEF Idles, Alone, CacheIsOwn, Unharmed, BoundsTyped
<1>10. Derived
  BY <1>1, <1>2, <1>3, <1>4, <1>5, NoRefreshFacts DEF Derived, Part, RealSessions
<1>11. \A g \in Fibers : Wiping(g)' <=> Wiping(g)
  BY <1>5 DEF Wiping
<1>12. Tidy'
  <2> SUFFICES ASSUME torn = 0, ~revived PROVE Tidy'
    BY <1>1, <1>2 DEF Tidy, BoundsTyped
  <2>1. /\ \A g \in Fibers : Wiping(g)' => \A k \in Keys \ fiber'[g].todo : disk'[k] = Nobody[k]
        /\ (disk'.access = NoToken => disk' = Nobody) \/ \E g \in Fibers : Wiping(g)' /\ fiber'[g].todo # Keys
    BY <1>1, <1>2, <1>5, <1>8, <1>11 DEF Tidy
  <2> QED
    BY <1>3, <1>4, <2>1 DEF Tidy
<1>13. Unharmed' => Unharmed
  BY <1>1, <1>2 DEF Unharmed, BoundsTyped
<1> QED
  BY <1>6, <1>8, <1>9, <1>10, <1>12, <1>13, DerivedStep

----------------------------------------------------------------------------
(* Sign-in, expiry and kills                                               *)

\* While a call stores, nothing else is under way.
LEMMA NobodyElse ==
  ASSUME SessionInv, NEW f \in Fibers, SigningIn(f)
  PROVE  /\ ~auth.loading /\ auth.cred.access = NoToken /\ refresh = NoRefresh
         /\ \A g \in Fibers : g # f => fiber[g] = Idle
  BY DEF SessionInv, Alone, SigningIn, Idles

LEMMA AdmitKeeps ==
  ASSUME SessionInv, NEW f \in Fibers, NEW u \in Users, Admit(f, u)
  PROVE  SessionInv'
<1>1. /\ RestTyped /\ BoundsTyped /\ fiber \in [Fibers -> FiberRecords]
      /\ Idles /\ RealSessions /\ Alone /\ OneSession /\ Tidy /\ CacheIsOwn
  BY TypeParts DEF SessionInv
<1>2. PICK s \in Sessions : 
        /\ owner[s] = NoUser
        /\ LET tok == [s |-> s, n |-> 1] IN
              /\ owner' = [owner EXCEPT ![s] = u]
              /\ issued' = [issued EXCEPT ![s] = 1]
              /\ valid' = valid \cup {tok}
              /\ fiber' = [fiber EXCEPT ![f].pc = "store", ![f].todo = Keys,
                             ![f].cred = [access |-> tok, refresh |-> s, user |-> u]]
  BY DEF Admit
<1> DEFINE tok == [s |-> s, n |-> 1]
           c == [access |-> tok, refresh |-> s, user |-> u]
           q == [fiber[f] EXCEPT !.pc = "store", !.todo = Keys, !.cred = c]
<1>3. /\ fiber[f].pc = "ask" /\ UNCHANGED <<revoked, disk, auth, refresh, cache, bounds>>
      /\ UNCHANGED <<torn, revived, crashes, faults, expiries>>
  BY DEF Admit, bounds
<1>4. /\ fiber[f] \in FiberRecords /\ \A g \in Fibers : ~Storing(g)
      /\ ~auth.loading /\ auth.cred.access = NoToken /\ refresh = NoRefresh
      /\ \A g \in Fibers : g # f => fiber[g] = Idle
  BY <1>3, UnderWay, NobodyElse DEF SigningIn
<1>5. tok \in Tokens /\ tok.s = s
  BY DEF Tokens
<1>6. c \in Credentials /\ c.access = tok /\ c.refresh = s /\ c.user = u
  BY <1>5 DEF Credentials
<1>7. fiber' = [fiber EXCEPT ![f] = q]
  BY <1>1, <1>2 DEF FiberRecords
<1>8. /\ q \in FiberRecords /\ q.pc = "store" /\ q.todo = Keys /\ q.cred = c /\ q.tok = fiber[f].tok
      /\ q.status = fiber[f].status
  BY <1>4, <1>6 DEF FiberRecords, Pcs
<1>9. /\ owner' = [owner EXCEPT ![s] = u] /\ issued' = [issued EXCEPT ![s] = 1] /\ valid' = valid \cup {tok}
  BY <1>2
<1> HIDE DEF q, c, tok
<1>10. /\ fiber' \in [Fibers -> FiberRecords] /\ fiber'[f] = q
       /\ \A g \in Fibers : g # f => fiber'[g] = fiber[g]
  BY <1>1, <1>7, <1>8, OneFiber
<1>11. TypeOK'
  BY <1>1, <1>3, <1>5, <1>9, <1>10, TypeParts DEF RestTyped, BoundsTyped
<1>12. Idles'
  BY <1>1, <1>3, <1>4, <1>8, <1>10 DEF Idles
<1>13. \A r : Real(r) => Real(r)'
  BY <1>1, <1>9 DEF Real, RestTyped, Sessions, NoSession
<1>14. Real(s)'
  BY <1>1, <1>9 DEF Real, RestTyped
<1>15. RealSessions'
  BY <1>1, <1>3, <1>5, <1>6, <1>8, <1>9, <1>10, <1>13, <1>14 DEF RealSessions, Real
<1>16. Alone'
  BY <1>3, <1>4, <1>10, IdleFacts, NoRefreshFacts DEF Alone, SigningIn
<1>17. Storing(f)' /\ \A g \in Fibers : Storing(g)' => g = f
  BY <1>4, <1>8, <1>10, IdleFacts DEF Storing
<1>18. Whole(c)'
  BY <1>1, <1>5, <1>6, <1>9, TokenFacts DEF Whole, RestTyped
<1>19. torn = 0 /\ ~revived => disk = Nobody
  BY <1>1, <1>4 DEF Tidy
<1>20. Unharmed' => \E r \in Sessions \cup {NoSession} : Of(disk, r)'
  <2> SUFFICES ASSUME Unharmed PROVE \E r \in Sessions \cup {NoSession} : Of(disk, r)'
    BY <1>3 DEF Unharmed
  <2>1. PICK r \in Sessions \cup {NoSession} : Of(disk, r)
    BY <1>1, <1>4 DEF OneSession, OfSession
  <2>2. OwnerOf(r)' = OwnerOf(r) \/ OwnerOf(r) = NoUser
    BY <1>1, <1>2, <1>9 DEF OwnerOf, RestTyped
  <2>3. Of(disk, r)'
    BY <1>3, <2>1, <2>2 DEF Of
  <2> QED
    BY <2>3
<1>21. Stores'
  <2>1. fiber'[f].cred = c /\ fiber'[f].todo = Keys
    BY <1>8, <1>10
  <2>2. \A g \in Fibers : Storing(g)' =>
          /\ Whole(fiber[g].cred)'
          /\ \A k \in Keys \ fiber'[g].todo : disk'[k] = fiber'[g].cred[k]
          /\ torn' = 0 /\ ~revived' => \A k \in fiber'[g].todo : disk'[k] = Nobody[k]
    BY <1>3, <1>17, <1>18, <1>19, <2>1 DEF Whole
  <2> QED
    BY <1>17, <1>20, <2>2 DEF Stores
<1>22. OneSession' /\ Tidy'
  BY <1>17 DEF OneSession, Tidy
<1>23. CacheIsOwn'
  BY <1>1, <1>3 DEF CacheIsOwn, Unharmed
<1> QED
  BY <1>11, <1>12, <1>15, <1>16, <1>21, <1>22, <1>23 DEF SessionInv

LEMMA StoreKeeps ==
  ASSUME SessionInv, NEW f \in Fibers, NEW k \in Keys, Store(f, k)
  PROVE  SessionInv'
<1>1. /\ RestTyped /\ BoundsTyped /\ fiber \in [Fibers -> FiberRecords]
      /\ Idles /\ RealSessions /\ Alone /\ Stores /\ CacheIsOwn
  BY TypeParts DEF SessionInv
<1>2. /\ fiber[f].pc = "store" /\ k \in fiber[f].todo /\ disk' = [disk EXCEPT ![k] = fiber[f].cred[k]]
      /\ fiber' = [fiber EXCEPT ![f].todo = @ \ {k}] /\ UNCHANGED <<server, auth, refresh, cache, bounds>>
  BY DEF Store
<1>3. UNCHANGED <<owner, revoked, issued, valid, torn, revived, crashes, faults, expiries>>
  BY <1>2 DEF server, bounds
<1>4. \A g \in Fibers : g # f => fiber[g] = Idle
  BY <1>2, NobodyElse DEF SigningIn
<1>5. /\ fiber' \in [Fibers -> FiberRecords]
      /\ \A g \in Fibers : g # f => fiber'[g] = fiber[g]
      /\ fiber'[f].pc = "store" /\ fiber'[f].cred = fiber[f].cred /\ fiber'[f].tok = fiber[f].tok
      /\ fiber'[f].status = fiber[f].status /\ fiber'[f].todo = fiber[f].todo \ {k}
  BY <1>1, <1>2 DEF FiberRecords
<1>6. fiber[f].cred \in Credentials /\ fiber[f].todo \subseteq Keys
  BY <1>1, Fields
<1>7. /\ disk' \in Credentials /\ disk'[k] = fiber[f].cred[k] /\ \A j \in Keys \ {k} : disk'[j] = disk[j]
      /\ disk'.access \in {disk.access, fiber[f].cred.access} /\ disk'.refresh \in {disk.refresh, fiber[f].cred.refresh}
  BY <1>1, <1>2, <1>6 DEF RestTyped, Credentials, Keys
<1>8. TypeOK'
  BY <1>1, <1>2, <1>3, <1>5, <1>7, TypeParts DEF RestTyped, BoundsTyped
<1>9. Idles' /\ Alone' /\ CacheIsOwn'
  <2>1. Idles'
    BY <1>1, <1>2, <1>3, <1>5 DEF Idles, Quiet
  <2>2. Alone'
    BY <1>1, <1>2, <1>3, <1>5 DEF Alone, SigningIn
  <2>3. CacheIsOwn'
    BY <1>1, <1>2, <1>3, <1>5 DEF CacheIsOwn, Unharmed
  <2> QED
    BY <2>1, <2>2, <2>3
<1>10. RealSessions'
  BY <1>1, <1>2, <1>3, <1>5, <1>7 DEF RealSessions, Real
<1>11. Storing(f)' /\ \A g \in Fibers : Storing(g)' => g = f
  BY <1>4, <1>5, IdleFacts DEF Storing
<1>12. OneSession' /\ Tidy'
  BY <1>11 DEF OneSession, Tidy
<1>13. Stores'
  <2>1. /\ Whole(fiber[f].cred)
        /\ \A j \in Keys \ fiber[f].todo : disk[j] = fiber[f].cred[j]
        /\ torn = 0 /\ ~revived => \A j \in fiber[f].todo : disk[j] = Nobody[j]
    BY <1>1, <1>2 DEF Stores, Storing
  <2>2. Whole(fiber[f].cred)'
    BY <1>3, <1>5, <2>1 DEF Whole
  <2>3. \A j \in Keys \ fiber'[f].todo : disk'[j] = fiber'[f].cred[j]
    BY <1>5, <1>7, <2>1
  <2>4. torn' = 0 /\ ~revived' => \A j \in fiber'[f].todo : disk'[j] = Nobody[j]
    BY <1>3, <1>5, <1>6, <1>7, <2>1
  <2>5. fiber'[f].todo # Keys
    BY <1>5
  <2> QED
    BY <1>11, <2>2, <2>3, <2>4, <2>5 DEF Stores
<1> QED
  BY <1>8, <1>9, <1>10, <1>12, <1>13 DEF SessionInv

LEMMA SetSessionKeeps ==
  ASSUME SessionInv, NEW f \in Fibers, SetSession(f)
  PROVE  SessionInv'
<1> DEFINE c == fiber[f].cred
<1>1. /\ RestTyped /\ BoundsTyped /\ fiber \in [Fibers -> FiberRecords]
      /\ Idles /\ RealSessions /\ Alone /\ Stores /\ CacheIsOwn
  BY TypeParts DEF SessionInv
<1>2. /\ fiber[f].pc = "store" /\ fiber[f].todo = {} /\ auth' = [loading |-> FALSE, cred |-> c]
      /\ fiber' = [fiber EXCEPT ![f] = Idle] /\ UNCHANGED <<server, disk, refresh, cache, bounds>>
  BY DEF SetSession
<1>3. UNCHANGED <<owner, revoked, issued, valid, torn, revived, crashes, faults, expiries>>
  BY <1>2 DEF server, bounds
<1>4. refresh = NoRefresh /\ \A g \in Fibers : g # f => fiber[g] = Idle
  BY <1>2, NobodyElse DEF SigningIn
<1>5. c \in Credentials /\ c.access \in Tokens \cup {NoToken} /\ c.refresh \in Sessions \cup {NoSession}
  BY <1>1, Fields
<1>6. Whole(c) /\ \A k \in Keys : disk[k] = c[k]
  BY <1>1, <1>2 DEF Stores, Storing
<1>7. disk = c
  <2>1. disk.access = c.access /\ disk.refresh = c.refresh /\ disk.user = c.user
    BY <1>6 DEF Keys
  <2> QED
    BY <1>1, <1>5, <2>1 DEF RestTyped, Credentials
<1>8. Real(c.access.s) /\ Real(c.refresh)
  BY <1>1 DEF RealSessions
<1> HIDE DEF c
<1>9. fiber' \in [Fibers -> FiberRecords] /\ \A g \in Fibers : fiber'[g] = Idle
  BY <1>1, <1>2, <1>4, IdleFacts
<1>10. TypeOK'
  BY <1>1, <1>2, <1>3, <1>5, <1>9, TypeParts DEF RestTyped, BoundsTyped
<1>11. Idles' /\ Alone' /\ CacheIsOwn' /\ \A g \in Fibers : ~Storing(g)'
  BY <1>1, <1>2, <1>3, <1>9, IdleFacts DEF Idles, Alone, SigningIn, Storing, CacheIsOwn, Unharmed
<1>12. RealSessions'
  BY <1>1, <1>2, <1>3, <1>8, <1>9, IdleFacts, NobodyFacts, TokenFacts DEF RealSessions, Real
<1>13. OneSession'
  <2>1. PICK s \in Sessions : s # NoSession /\ c.access.s = s /\ c.refresh = s /\ c.user = owner[s]
    BY <1>5, <1>6, TokenFacts DEF Whole
  <2>2. OwnerOf(s)' = owner[s]
    BY <1>3, <2>1 DEF OwnerOf
  <2>3. Of(auth.cred, s)' /\ Of(disk, s)'
    BY <1>2, <1>7, <2>1, <2>2 DEF Of
  <2>4. OfSession(s)'
    BY <1>2, <1>4, <1>9, <2>3, IdleFacts, NobodyFacts, TokenFacts, NoRefreshFacts DEF OfSession, Of
  <2> QED
    BY <2>4 DEF OneSession
<1>14. Stores'
  BY <1>11 DEF Stores
<1>15. Tidy'
  BY <1>2, <1>6, <1>7, <1>9, IdleFacts DEF Tidy, Wiping, Whole
<1> QED
  BY <1>10, <1>11, <1>12, <1>13, <1>14, <1>15 DEF SessionInv

LEMMA ExpireKeeps ==
  ASSUME SessionInv, NEW tok \in valid, Expire(tok)
  PROVE  SessionInv'
<1>1. TypeOK /\ Idles /\ RealSessions /\ Alone /\ OneSession /\ Stores /\ Tidy /\ CacheIsOwn
  BY DEF SessionInv
<1>2. /\ valid' = valid \ {tok} /\ expiries < MaxExpiries /\ expiries' = expiries + 1
      /\ UNCHANGED <<owner, revoked, issued, disk, auth, refresh, cache, fiber, revived, torn, crashes, faults>>
  BY DEF Expire
<1>3. TypeOK'
  BY <1>1, <1>2, SessionAssumption DEF TypeOK
<1>4. Idles' /\ RealSessions' /\ Alone' /\ CacheIsOwn'
  BY <1>1, <1>2 DEF Idles, Quiet, RealSessions, Real, Alone, SigningIn, CacheIsOwn, Unharmed
<1>5. OneSession'
  <2>1. \A s : OwnerOf(s)' = OwnerOf(s)
    BY <1>2 DEF OwnerOf
  <2>2. \A s : OfSession(s) => OfSession(s)'
    BY <1>2, <2>1 DEF OfSession, Of
  <2> QED
    BY <1>1, <1>2, <2>2 DEF OneSession, Unharmed, Storing
<1>6. Stores'
  <2>1. \A s : Of(disk, s) => Of(disk, s)'
    BY <1>2 DEF Of, OwnerOf
  <2> QED
    BY <1>1, <1>2, <2>1 DEF Stores, Storing, Whole, Unharmed
<1>7. Tidy'
  BY <1>1, <1>2 DEF Tidy, Wiping, Storing
<1> QED
  BY <1>3, <1>4, <1>5, <1>6, <1>7 DEF SessionInv

\* What a kill of the app leaves.
LEMMA CrashLeaves ==
  ASSUME SessionInv, Crash
  PROVE  /\ Unharmed' => \E s \in Sessions \cup {NoSession} : Of(disk, s)
         /\ torn' = 0 /\ ~revived /\ disk.access = NoToken => disk = Nobody
<1>1. /\ RestTyped /\ BoundsTyped /\ fiber \in [Fibers -> FiberRecords]
      /\ OneSession /\ Stores /\ Tidy
  BY TypeParts DEF SessionInv
<1>2. torn' = (IF \E f \in Fibers : HalfDone(f) THEN torn + 1 ELSE torn) /\ UNCHANGED revived
  BY DEF Crash, bounds
<1>3. torn \in Nat /\ revived \in BOOLEAN /\ disk \in Credentials
  BY <1>1, SessionAssumption DEF BoundsTyped, RestTyped
<1>4. CASE \A f \in Fibers : ~Storing(f)
  <2>1. Unharmed' => Unharmed
    BY <1>2, <1>3 DEF Unharmed
  <2>2. Unharmed' => \E s \in Sessions \cup {NoSession} : Of(disk, s)
    BY <1>1, <1>4, <2>1 DEF OneSession, OfSession
  <2>3. ASSUME torn' = 0, ~revived, disk.access = NoToken PROVE disk = Nobody
    <3>1. torn = 0 /\ \A f \in Fibers : ~HalfDone(f)
      BY <1>2, <1>3, <2>3
    <3>2. CASE disk # Nobody
      <4>1. PICK f \in Fibers : Wiping(f) /\ fiber[f].todo # Keys
        BY <1>1, <1>4, <2>3, <3>1, <3>2 DEF Tidy
      <4>2. fiber[f].todo = {}
        BY <3>1, <4>1 DEF HalfDone, Wiping
      <4>3. \A k \in Keys : disk[k] = Nobody[k]
        BY <1>1, <1>4, <2>3, <3>1, <4>1, <4>2 DEF Tidy
      <4> QED
        BY <1>3, <4>3, Emptied
    <3> QED
      BY <3>2
  <2> QED
    BY <2>2, <2>3
<1>5. ASSUME NEW f \in Fibers, Storing(f)
      PROVE  /\ Unharmed' => \E s \in Sessions \cup {NoSession} : Of(disk, s)
             /\ torn' = 0 /\ ~revived /\ disk.access = NoToken => disk = Nobody
  <2> DEFINE c == fiber[f].cred
  <2>1. /\ Whole(c)
        /\ \A k \in Keys \ fiber[f].todo : disk[k] = c[k]
        /\ torn = 0 /\ ~revived => \A k \in fiber[f].todo : disk[k] = Nobody[k]
        /\ Unharmed /\ fiber[f].todo = Keys => \E s \in Sessions \cup {NoSession} : Of(disk, s)
    BY <1>1, <1>5 DEF Stores
  <2>2. c.access \in Tokens \cup {NoToken} /\ c.refresh \in Sessions \cup {NoSession}
    BY <1>1, Fields
  <2>3. c.refresh # NoSession /\ c.access.s = c.refresh /\ c.user = OwnerOf(c.refresh) /\ c.access # NoToken
    BY <2>1, <2>2, TokenFacts DEF Whole, OwnerOf
  <2> HIDE DEF c
  <2>4. (\A k \in Keys : disk[k] \in {c[k], Nobody[k]}) => Of(disk, c.refresh)
    BY <2>3, NobodyFacts, TokenFacts DEF Of, Keys
  <2>5. HalfDone(f) \/ fiber[f].todo = Keys \/ fiber[f].todo = {}
    BY <1>5 DEF HalfDone, Storing
  <2>6. CASE HalfDone(f)
    BY <1>2, <1>3, <2>1, <2>2, <2>4, <2>6 DEF Unharmed
  <2>7. CASE fiber[f].todo = {}
    BY <2>1, <2>2, <2>3, <2>4, <2>7 DEF Keys
  <2>8. CASE fiber[f].todo = Keys
    <3>1. Unharmed' => Unharmed
      BY <1>2, <1>3 DEF Unharmed
    <3>2. torn' = 0 /\ ~revived => disk = Nobody
      BY <1>2, <1>3, <2>1, <2>8, Emptied
    <3> QED
      BY <2>1, <2>8, <3>1, <3>2
  <2> QED
    BY <2>5, <2>6, <2>7, <2>8
<1> QED
  BY <1>4, <1>5

LEMMA CrashKeeps ==
  ASSUME SessionInv, Crash
  PROVE  SessionInv'
<1>1. /\ RestTyped /\ BoundsTyped /\ fiber \in [Fibers -> FiberRecords] /\ Idles /\ RealSessions
  BY TypeParts DEF SessionInv
<1>2. /\ crashes + faults < MaxTroubles /\ crashes' = crashes + 1
      /\ torn' = (IF \E f \in Fibers : HalfDone(f) THEN torn + 1 ELSE torn)
      /\ auth' = [loading |-> TRUE, cred |-> Nobody] /\ refresh' = NoRefresh /\ cache' = EmptyCache
      /\ fiber' = [f \in Fibers |-> Idle] /\ UNCHANGED <<server, disk, revived, expiries, faults>>
  BY DEF Crash
<1>3. UNCHANGED <<owner, revoked, issued, valid>>
  BY <1>2 DEF server
<1>4. torn \in Nat /\ crashes \in Nat /\ torn <= crashes /\ faults \in Nat /\ crashes + faults \in Nat
  BY <1>1, SessionAssumption DEF BoundsTyped, Idles
<1>5. auth' \in [loading : BOOLEAN, cred : Credentials] /\ cache' \in [Users \cup {NoUser} -> SUBSET Users]
  BY <1>2, NobodyFacts DEF EmptyCache
<1>6. torn' <= crashes'
  BY <1>2, <1>4
<1>7. BoundsTyped'
  BY <1>1, <1>2, <1>4, <1>6, SessionAssumption DEF BoundsTyped
<1>8. TypeOK'
  BY <1>1, <1>2, <1>3, <1>5, <1>7, IdleFacts, NoRefreshFacts, TypeParts DEF RestTyped
<1>9. Idles'
  BY <1>2, <1>6, IdleFacts, NoRefreshFacts DEF Idles, Quiet
<1>10. RealSessions'
  BY <1>1, <1>2, <1>3, IdleFacts, NobodyFacts, TokenFacts, NoRefreshFacts DEF RealSessions, Real
<1>11. Alone' /\ Stores' /\ CacheIsOwn' /\ \A f \in Fibers : ~Storing(f)' /\ ~Wiping(f)'
  BY <1>2, IdleFacts DEF Alone, SigningIn, Stores, Storing, Wiping, CacheIsOwn, EmptyCache
<1>12. /\ Unharmed' => \E s \in Sessions \cup {NoSession} : Of(disk, s)
       /\ torn' = 0 /\ ~revived /\ disk.access = NoToken => disk = Nobody
  BY CrashLeaves
<1>13. OneSession'
  <2> SUFFICES ASSUME Unharmed' PROVE \E s \in Sessions \cup {NoSession} : OfSession(s)'
    BY DEF OneSession
  <2>1. PICK s \in Sessions \cup {NoSession} : Of(disk, s)
    BY <1>12
  <2>2. Of(disk, s)'
    BY <1>2, <1>3, <2>1 DEF Of, OwnerOf
  <2>3. OfSession(s)'
    BY <1>2, <2>2, IdleFacts, NobodyFacts, TokenFacts, NoRefreshFacts DEF OfSession, Of
  <2> QED
    BY <2>3
<1>14. Tidy'
  BY <1>2, <1>11, <1>12 DEF Tidy
<1> QED
  BY <1>8, <1>9, <1>10, <1>11, <1>13, <1>14 DEF SessionInv

----------------------------------------------------------------------------
(* Two users of one phone stay apart                                       *)

LEMMA SessionInvInit == Init => SessionInv
<1> SUFFICES ASSUME Init PROVE SessionInv
  OBVIOUS
<1>1. /\ auth = [loading |-> TRUE, cred |-> Nobody] /\ disk = Nobody /\ refresh = NoRefresh
      /\ \A f \in Fibers : fiber[f] = Idle
      /\ valid = {} /\ torn = 0 /\ crashes = 0 /\ ~revived
  BY DEF Init
<1>2. TypeOK
  <2>1. RestTyped
    BY NobodyFacts, NoRefreshFacts DEF Init, RestTyped, EmptyCache
  <2>2. fiber \in [Fibers -> FiberRecords]
    BY IdleFacts DEF Init
  <2>3. MaxTroubles \in Nat /\ MaxExpiries \in Nat
    BY SessionAssumption
  <2>4. revived = FALSE /\ torn = 0 /\ expiries = 0 /\ crashes = 0 /\ faults = 0
    BY DEF Init
  <2>5. BoundsTyped
    <3>1. crashes + faults = 0
      BY <2>4
    <3>2. {crashes, faults, crashes + faults} \subseteq 0..MaxTroubles
      BY <2>3, <2>4, <3>1
    <3>3. torn \in 0..MaxTroubles /\ expiries \in 0..MaxExpiries
      BY <2>3, <2>4
    <3>4. revived \in BOOLEAN
      BY Zenon DEF Init
    <3> QED
      BY <3>2, <3>3, <3>4 DEF BoundsTyped
  <2> QED
    BY <2>1, <2>2, <2>5, TypeParts
<1>3. Idles
  BY <1>1, IdleFacts, NoRefreshFacts DEF Idles, Quiet
<1>4. RealSessions /\ OfSession(NoSession)
  BY <1>1, IdleFacts, NobodyFacts, TokenFacts, NoRefreshFacts DEF RealSessions, Real, OfSession, Of
<1>5. Alone /\ Stores /\ OneSession /\ Tidy
  BY <1>1, <1>4, IdleFacts DEF Alone, SigningIn, Stores, Storing, OneSession, Tidy, Wiping
<1>6. CacheIsOwn
  BY DEF Init, CacheIsOwn, EmptyCache
<1> QED
  BY <1>2, <1>3, <1>4, <1>5, <1>6 DEF SessionInv

LEMMA SessionInvStep ==
  ASSUME Patient, SessionInv, [Next]_vars
  PROVE  SessionInv'
<1>1. CASE UNCHANGED vars
  <2>1. UNCHANGED <<owner, revoked, issued, valid, disk, auth, refresh, cache, fiber, revived, torn, expiries, crashes, faults>>
    BY <1>1 DEF vars, server, bounds
  <2> QED
    BY <2>1 DEF SessionInv, TypeOK, Idles, Quiet, RealSessions, Real, Alone, SigningIn, OneSession, OfSession, Of, OwnerOf,
                Unharmed, Stores, Storing, Whole, Tidy, Wiping, CacheIsOwn
<1>2. CASE Bootstrap \/ RefreshStep \/ Crash
  BY <1>2, BootstrapKeeps, GrantedKeeps, DeniedKeeps, WriteKeeps, SetKeeps, CrashKeeps DEF RefreshStep
<1>3. ASSUME NEW f \in Fibers, User(f) PROVE SessionInv'
  BY <1>3, SignInKeeps, SignOutKeeps, CallKeeps DEF User
<1>4. ASSUME NEW f \in Fibers, Progress(f) PROVE SessionInv'
  BY <1>4, AdmitKeeps, RefuseKeeps, StoreKeeps, WipeKeeps, SetSessionKeeps, LogoutKeeps, ClearKeeps, ServeKeeps,
     AskRefreshKeeps, TakeKeeps DEF Progress
<1>5. ASSUME NEW f \in Fibers, RetryQuery(f) PROVE SessionInv'
  BY <1>5, RetryQueryKeeps
<1>6. ASSUME NEW tok \in valid, Expire(tok) PROVE SessionInv'
  BY <1>6, ExpireKeeps
<1> QED
  BY <1>1, <1>2, <1>3, <1>4, <1>5, <1>6 DEF Next

LEMMA InvKeepsApart == SessionInv => UsersStayApart
<1> SUFFICES ASSUME SessionInv PROVE UsersStayApart
  OBVIOUS
<1>1. TypeOK /\ CacheIsOwn /\ RestTyped /\ Alone /\ OneSession
  BY TypeParts DEF SessionInv
<1>2. AnswersAreOwn
  BY AnswerIsOwn DEF AnswersAreOwn
<1>3. SessionIsWhole
  <2> DEFINE c == auth.cred
  <2> SUFFICES ASSUME Unharmed, c.access # NoToken
               PROVE  (c.refresh # NoSession => c.access.s = c.refresh) /\ (c.user # NoUser => owner[c.access.s] = c.user)
    BY DEF SessionIsWhole
  <2>1. \A f \in Fibers : ~Storing(f)
    BY <1>1 DEF Alone, SigningIn, Storing
  <2>2. PICK s \in Sessions \cup {NoSession} : OfSession(s)
    BY <1>1, <2>1 DEF OneSession
  <2>3. c \in Credentials /\ c.access \in Tokens \cup {NoToken}
    BY <1>1, Fields DEF RestTyped
  <2>4. c.access.s = s /\ s # NoSession
    BY <2>2, <2>3, TokenFacts DEF OfSession, Of
  <2> QED
    BY <2>2, <2>4 DEF OfSession, Of, OwnerOf
<1> QED
  BY <1>1, <1>2, <1>3 DEF UsersStayApart

(* Two users of one phone stay apart (UsersStayApart), for any number of   *)
(* users, sessions, expiries and troubles, if the user is patient: no      *)
(* screen takes an answer that was authorised for another user, the cache  *)
(* holds no data of another user, and AuthProvider never mixes two         *)
(* sessions, whatever calls, refreshes and sign-outs run beside each other *)
(* and wherever the app is killed. SessionInv adds that between sign-ins   *)
(* everything the app holds is about one session (OneSession), what the    *)
(* three keys hold in the middle of setSession (Stores) and that nothing   *)
(* is left of a session that has ended (Tidy).                             *)
THEOREM UsersApart == Patient => (Spec => []UsersStayApart)
<1> SUFFICES ASSUME Patient PROVE Spec => []UsersStayApart
  OBVIOUS
<1>1. Init => SessionInv
  BY SessionInvInit
<1>2. SessionInv /\ [Next]_vars => SessionInv'
  BY SessionInvStep
<1>3. SessionInv => UsersStayApart
  BY InvKeepsApart
<1> QED
  BY <1>1, <1>2, <1>3, PTL DEF Spec

----------------------------------------------------------------------------
(* Only a revoked session comes to an end                                  *)

\* The steps of one call that leave the store and the provider alone.
LEMMA CallEnds ==
  ASSUME SessionInv, ExpiryInv, NEW f \in Fibers, NEW q \in FiberRecords, fiber' = [fiber EXCEPT ![f] = q],
         UNCHANGED <<issued, valid, disk, auth, revived, crashes>>, revoked \subseteq revoked', faults' = 0 => faults = 0,
         UNCHANGED refresh \/ (refresh'.pc = "sent" /\ refresh'.tok = NoToken),
         {q.cred.access, q.tok} \subseteq {NoToken, fiber[f].tok, fiber[f].cred.access, auth.cred.access},
         q.pc = "resent" => q.tok \in valid, Calm' => Sound(q)'
  PROVE  ExpiryInv'
<1>1. NoneNewer /\ Fresh /\ RetriesValid /\ EndsRevoked /\ Idles
  BY DEF ExpiryInv, SessionInv
<1>2. /\ fiber'[f] = q /\ \A g \in Fibers : g # f => fiber'[g] = fiber[g]
  BY OneFiber, TypeParts DEF SessionInv
<1>3. NoneNewer'
  BY <1>1, <1>2, TokenFacts DEF NoneNewer, Old
<1>4. Fresh'
  BY <1>1, <1>2 DEF Fresh, Idles
<1>5. RetriesValid'
  BY <1>1, <1>2 DEF RetriesValid
<1>6. EndsRevoked'
  <2> SUFFICES ASSUME Calm' PROVE EndsRevoked'
    BY DEF EndsRevoked
  <2>1. Calm
    BY DEF Calm
  <2>2. \A g \in Fibers : Sound(fiber[g])
    BY <1>1, <2>1 DEF EndsRevoked
  <2>3. \A g \in Fibers : Sound(fiber[g])'
    BY <1>2, <2>2 DEF Sound, Ended
  <2> QED
    BY <1>1, <2>1, <2>3 DEF EndsRevoked
<1> QED
  BY <1>3, <1>4, <1>5, <1>6 DEF ExpiryInv

\* What troubles count.
LEMMA FaultCounts ==
  ASSUME BoundsTyped, UNCHANGED bounds \/ Fail
  PROVE  /\ UNCHANGED <<revived, crashes>>
         /\ faults' = 0 => faults = 0 /\ UNCHANGED bounds
  BY SessionAssumption DEF BoundsTyped, bounds, Fail

\* Without troubles everybody who is not signing in is about the session of the others.
LEMMA SameSession ==
  ASSUME SessionInv, Calm, \A f \in Fibers : ~Storing(f)
  PROVE  \E s : \A c \in {auth.cred.refresh, refresh.s} \cup {fiber[f].cred.refresh : f \in Fibers} : c \in {NoSession, s}
<1>1. Unharmed
  BY SessionAssumption DEF SessionInv, TypeOK, Idles, Calm, Unharmed
<1>2. PICK s \in Sessions \cup {NoSession} : OfSession(s)
  BY <1>1 DEF SessionInv, OneSession
<1> QED
  BY <1>2 DEF OfSession, Of

LEMMA StartEnds ==
  ASSUME SessionInv, ExpiryInv, NEW f \in Fibers, NEW op \in Ops,
         SignIn(f) \/ Refuse(f) \/ SignOut(f) \/ Call(f, op)
  PROVE  ExpiryInv'
<1>1. /\ UNCHANGED <<server, disk, auth, refresh, cache, bounds>>
      /\ UNCHANGED <<issued, valid, revoked, revived, crashes, faults>>
  <2>1. UNCHANGED <<server, disk, auth, refresh, cache, bounds>>
    BY DEF SignIn, Refuse, SignOut, Call
  <2> QED
    BY <2>1 DEF server, bounds
<1>2. auth.cred \in Credentials /\ auth.cred.access \in Tokens \cup {NoToken} /\ EndsRevoked
  BY TypeParts, Fields DEF SessionInv, RestTyped, ExpiryInv
<1>3. CASE SignIn(f) \/ Refuse(f)
  <2>1. PICK q \in FiberRecords : /\ fiber' = [fiber EXCEPT ![f] = q]
                                  /\ q.pc \in {"ask", "idle"} /\ q.cred = Nobody /\ q.tok = NoToken
    <3>1. [Idle EXCEPT !.pc = "ask", !.op = "signin"] \in FiberRecords
      BY IdleFacts DEF FiberRecords, Pcs, Ops
    <3>2. CASE SignIn(f)
      BY <3>1, <3>2, IdleFacts DEF SignIn, FiberRecords
    <3>3. CASE Refuse(f)
      BY <3>3, IdleFacts DEF Refuse
    <3> QED
      BY <1>3, <3>2, <3>3
  <2>2. Sound(q)'
    BY <2>1 DEF Sound
  <2> QED
    BY <1>1, <2>1, <2>2, NobodyFacts, CallEnds
<1>4. CASE SignOut(f) \/ Call(f, op)
  <2>1. PICK q \in FiberRecords : /\ fiber' = [fiber EXCEPT ![f] = q] /\ q.pc \in {"logout", "sent"}
                                  /\ q.cred = auth.cred /\ q.tok \in {NoToken, auth.cred.access}
    <3>1. CASE SignOut(f)
      <4> DEFINE q == [Idle EXCEPT !.pc = "logout", !.op = "signout", !.cred = auth.cred]
      <4>1. q \in FiberRecords /\ q.pc = "logout" /\ q.cred = auth.cred /\ q.tok = NoToken
        BY <1>2, IdleFacts DEF FiberRecords, Pcs, Ops
      <4> QED
        BY <3>1, <4>1 DEF SignOut
    <3>2. CASE Call(f, op)
      <4> DEFINE q == [Idle EXCEPT !.pc = "sent", !.op = op, !.cred = auth.cred, !.tok = auth.cred.access]
      <4>1. q \in FiberRecords /\ q.pc = "sent" /\ q.cred = auth.cred /\ q.tok = auth.cred.access
        BY <1>2, IdleFacts DEF FiberRecords, Pcs, Ops
      <4>2. fiber' = [fiber EXCEPT ![f] = q]
        BY <3>2 DEF Call
      <4> QED
        BY <4>1, <4>2
    <3> QED
      BY <1>4, <3>1, <3>2
  <2>2. auth.cred.access # NoToken
    BY <1>4 DEF SignOut, Call, SignedIn
  <2>3. Calm' => Sound(q)'
    BY <1>1, <1>2, <2>1, <2>2 DEF Calm, EndsRevoked, Sound, Ended
  <2> QED
    BY <1>1, <2>1, <2>3, CallEnds
<1> QED
  BY <1>3, <1>4

LEMMA LogoutEnds ==
  ASSUME SessionInv, ExpiryInv, NEW f \in Fibers, Logout(f)
  PROVE  ExpiryInv'
<1>1. BoundsTyped /\ fiber \in [Fibers -> FiberRecords] /\ EndsRevoked
  BY TypeParts DEF SessionInv, ExpiryInv
<1>2. /\ fiber[f].pc = "logout" /\ fiber' = [fiber EXCEPT ![f].pc = "wipe", ![f].todo = Keys]
      /\ UNCHANGED <<issued, valid, disk, auth, refresh>> /\ revoked \subseteq revoked'
      /\ UNCHANGED bounds \/ Fail
  BY DEF Logout
<1>3. PICK q \in FiberRecords : /\ fiber' = [fiber EXCEPT ![f] = q]
                                /\ q.pc = "wipe" /\ q.cred = fiber[f].cred /\ q.tok = fiber[f].tok
  <2> DEFINE q == [fiber[f] EXCEPT !.pc = "wipe", !.todo = Keys]
  <2>1. q \in FiberRecords /\ q.pc = "wipe" /\ q.cred = fiber[f].cred /\ q.tok = fiber[f].tok /\ fiber' = [fiber EXCEPT ![f] = q]
    BY <1>1, <1>2 DEF FiberRecords, Pcs
  <2> QED
    BY <2>1
<1>4. ASSUME Calm' PROVE Sound(q)'
  <2>1. Calm /\ ~Fail
    BY <1>1, <1>2, <1>4, FaultCounts, SessionAssumption DEF Calm, Fail, BoundsTyped
  <2>2. fiber[f].cred.refresh # NoSession
    BY <1>1, <1>2, <2>1 DEF EndsRevoked, Sound
  <2>3. fiber[f].cred.refresh \in revoked'
    BY <2>1, <2>2 DEF Logout
  <2> QED
    BY <1>3, <2>2, <2>3 DEF Sound
<1> QED
  BY <1>1, <1>2, <1>3, <1>4, FaultCounts, CallEnds

LEMMA ServeEnds ==
  ASSUME SessionInv, ExpiryInv, NEW f \in Fibers, Serve(f)
  PROVE  ExpiryInv'
<1>1. BoundsTyped /\ fiber \in [Fibers -> FiberRecords] /\ EndsRevoked /\ RetriesValid /\ fiber[f].pc \in {"sent", "resent"}
  BY TypeParts DEF SessionInv, ExpiryInv, Serve
<1>2. UNCHANGED <<issued, valid, disk, auth, refresh>> /\ revoked \subseteq revoked' /\ (UNCHANGED bounds \/ Fail)
  BY DEF Serve
<1>3. PICK st \in {"ok", "401", "fail"}, p \in {"denied", "answered"} :
          /\ fiber' = [fiber EXCEPT ![f].status = st, ![f].pc = p]
          /\ st = "401" /\ p = "answered" => fiber[f].pc = "resent" /\ fiber[f].tok \notin valid
  BY <1>1 DEF Serve
<1>4. PICK q \in FiberRecords : /\ fiber' = [fiber EXCEPT ![f] = q] /\ q.pc = p /\ q.status = st
                                /\ q.cred = fiber[f].cred /\ q.tok = fiber[f].tok
  <2> DEFINE q == [fiber[f] EXCEPT !.status = st, !.pc = p]
  <2>1. q \in FiberRecords /\ q.pc = p /\ q.status = st /\ q.cred = fiber[f].cred /\ q.tok = fiber[f].tok
    BY <1>1, <1>3 DEF FiberRecords, Pcs
  <2>2. fiber' = [fiber EXCEPT ![f] = q]
    BY <1>1, <1>3 DEF FiberRecords
  <2> QED
    BY <2>1, <2>2
<1>5. ASSUME Calm' PROVE Sound(q)'
  <2>1. Calm
    BY <1>1, <1>2, <1>5, FaultCounts DEF Calm
  <2>2. Sound(fiber[f])
    BY <1>1, <2>1 DEF EndsRevoked
  <2>3. ~(q.pc = "answered" /\ q.status = "401")
    BY <1>1, <1>3, <1>4 DEF RetriesValid
  <2> QED
    BY <1>1, <1>2, <1>3, <1>4, <2>2, <2>3 DEF Sound, Ended
<1> QED
  BY <1>1, <1>2, <1>3, <1>4, <1>5, FaultCounts, CallEnds

LEMMA AskRefreshEnds ==
  ASSUME SessionInv, ExpiryInv, NEW f \in Fibers, AskRefresh(f)
  PROVE  ExpiryInv'
<1>1. fiber \in [Fibers -> FiberRecords] /\ EndsRevoked /\ fiber[f].pc = "denied"
  BY TypeParts DEF SessionInv, ExpiryInv, AskRefresh
<1>2. UNCHANGED <<issued, valid, revoked, disk, auth, revived, crashes, faults>>
  BY DEF AskRefresh, server, bounds
<1>3. PICK p \in {"answered", "await"} : 
          /\ fiber' = [fiber EXCEPT ![f].pc = p] /\ (p = "answered" => auth.cred.refresh = NoSession)
          /\ UNCHANGED refresh \/ (refresh'.pc = "sent" /\ refresh'.tok = NoToken)
  BY DEF AskRefresh
<1>4. PICK q \in FiberRecords : /\ fiber' = [fiber EXCEPT ![f] = q] /\ q.pc = p /\ q.status = fiber[f].status
                                /\ q.cred = fiber[f].cred /\ q.tok = fiber[f].tok
  <2> DEFINE q == [fiber[f] EXCEPT !.pc = p]
  <2>1. q \in FiberRecords /\ q.pc = p /\ q.status = fiber[f].status /\ q.cred = fiber[f].cred /\ q.tok = fiber[f].tok
    BY <1>1, <1>3 DEF FiberRecords, Pcs
  <2>2. fiber' = [fiber EXCEPT ![f] = q]
    BY <1>1, <1>3 DEF FiberRecords
  <2> QED
    BY <2>1, <2>2
<1>5. Calm' => Sound(q)'
  <2> SUFFICES ASSUME Calm' PROVE Sound(q)'
    OBVIOUS
  <2>1. Sound(fiber[f]) /\ (auth.cred.refresh = NoSession => auth.cred.access = NoToken)
    BY <1>1, <1>2 DEF EndsRevoked, Calm
  <2> QED
    BY <1>1, <1>2, <1>3, <1>4, <2>1 DEF Sound, Ended
<1> QED
  BY <1>2, <1>3, <1>4, <1>5, CallEnds

LEMMA TakeEnds ==
  ASSUME SessionInv, ExpiryInv, NEW f \in Fibers, Take(f) \/ RetryQuery(f)
  PROVE  ExpiryInv'
<1>1. fiber \in [Fibers -> FiberRecords] /\ EndsRevoked /\ fiber[f].pc = "answered"
  BY TypeParts DEF SessionInv, ExpiryInv, Take, RetryQuery
<1>2. UNCHANGED <<issued, valid, revoked, disk, auth, refresh, revived, crashes, faults>>
  BY DEF Take, RetryQuery, server, bounds
<1>3. PICK q \in FiberRecords : /\ fiber' = [fiber EXCEPT ![f] = q] /\ q.pc \in {"idle", "logout", "sent"}
                                /\ q.pc # "idle" => q.cred = fiber[f].cred
                                /\ {q.tok, q.cred.access} \subseteq {NoToken, fiber[f].cred.access}
  <2>1. CASE fiber' = [fiber EXCEPT ![f] = Idle]
    BY <2>1, IdleFacts, NobodyFacts
  <2>2. CASE fiber' = [fiber EXCEPT ![f] = [fiber[f] EXCEPT !.pc = "logout", !.tok = NoToken, !.status = "none", !.orphan = FALSE]]
    <3> DEFINE q == [fiber[f] EXCEPT !.pc = "logout", !.tok = NoToken, !.status = "none", !.orphan = FALSE]
    <3>1. q \in FiberRecords /\ q.pc = "logout" /\ q.cred = fiber[f].cred /\ q.tok = NoToken
      BY <1>1 DEF FiberRecords, Pcs
    <3> QED
      BY <2>2, <3>1
  <2>3. CASE RetryQuery(f)
    <3> DEFINE q == [fiber[f] EXCEPT !.pc = "sent", !.status = "none", !.tok = fiber[f].cred.access]
    <3>1. fiber[f].cred.access \in Tokens \cup {NoToken}
      BY <1>1, Fields
    <3>2. q \in FiberRecords /\ q.pc = "sent" /\ q.cred = fiber[f].cred /\ q.tok = fiber[f].cred.access
      BY <1>1, <3>1 DEF FiberRecords, Pcs
    <3>3. fiber' = [fiber EXCEPT ![f] = q]
      BY <1>1, <2>3 DEF RetryQuery, FiberRecords
    <3> QED
      BY <3>2, <3>3
  <2> QED
    BY <2>1, <2>2, <2>3 DEF Take
<1>4. Calm' => Sound(q)'
  BY <1>1, <1>2, <1>3 DEF EndsRevoked, Calm, Sound, Ended
<1> QED
  BY <1>1, <1>2, <1>3, <1>4, CallEnds

LEMMA BootstrapEnds ==
  ASSUME SessionInv, ExpiryInv, Bootstrap
  PROVE  ExpiryInv'
<1>1. NoneNewer /\ EndsRevoked /\ Idles
  BY DEF SessionInv, ExpiryInv
<1>2. /\ auth.loading /\ auth'.loading = FALSE /\ auth'.cred = disk
      /\ UNCHANGED <<issued, valid, revoked, disk, refresh, fiber, revived, crashes, faults>>
  BY DEF Bootstrap, server, bounds
<1>3. refresh.pc = "idle" /\ \A f \in Fibers : fiber[f].pc = "idle"
  BY <1>1, <1>2 DEF Idles, Quiet
<1>4. NoneNewer' /\ Fresh' /\ RetriesValid'
  BY <1>1, <1>2, <1>3 DEF NoneNewer, Old, Fresh, RetriesValid
<1>5. EndsRevoked'
  BY <1>1, <1>2, <1>3, NobodyFacts DEF EndsRevoked, Calm, Sound
<1> QED
  BY <1>4, <1>5 DEF ExpiryInv

LEMMA AdmitEnds ==
  ASSUME SessionInv, ExpiryInv, NEW f \in Fibers, NEW u \in Users, Admit(f, u)
  PROVE  ExpiryInv'
<1>1. /\ NoneNewer /\ EndsRevoked /\ RealSessions /\ RestTyped /\ fiber \in [Fibers -> FiberRecords]
      /\ fiber[f].pc = "ask"
  BY TypeParts DEF SessionInv, ExpiryInv, Admit
<1>2. PICK s \in Sessions : 
        /\ owner[s] = NoUser
        /\ issued' = [issued EXCEPT ![s] = 1]
        /\ fiber' = [fiber EXCEPT ![f].pc = "store", ![f].todo = Keys,
                       ![f].cred = [access |-> [s |-> s, n |-> 1], refresh |-> s, user |-> u]]
  BY DEF Admit
<1>3. UNCHANGED <<revoked, disk, auth, refresh, revived, crashes, faults>>
  BY DEF Admit, bounds
<1>4. /\ ~auth.loading /\ refresh = NoRefresh /\ \A g \in Fibers : g # f => fiber[g] = Idle
  BY <1>1, NobodyElse DEF SigningIn
<1>5. /\ fiber'[f].pc = "store" /\ fiber'[f].tok = fiber[f].tok
      /\ fiber'[f].cred.access.s = s /\ fiber'[f].cred.access.n = 1
      /\ \A g \in Fibers : g # f => fiber'[g] = Idle
  BY <1>1, <1>2, <1>4 DEF FiberRecords
<1>6. ~Real(s)
  BY <1>2, SessionAssumption DEF Real, Sessions, NoSession
<1>7. issued'[s] = 1 /\ \A r : r # s /\ r \in Sessions => issued'[r] = issued[r]
  BY <1>1, <1>2 DEF RestTyped
<1>8. \A tok \in Tokens \cup {NoToken} : Old(tok) /\ Real(tok.s) => (tok.s # NoSession => tok.n <= issued'[tok.s])
  BY <1>6, <1>7, TokenFacts DEF Old
<1>9. NoneNewer'
  <2>1. /\ auth.cred.access \in Tokens \cup {NoToken} /\ disk.access \in Tokens \cup {NoToken}
        /\ fiber[f].tok \in Tokens \cup {NoToken}
    BY <1>1, Fields DEF RestTyped
  <2>2. Old(auth.cred.access)' /\ Old(disk.access)' /\ Old(fiber[f].tok)'
    BY <1>1, <1>3, <1>5, <1>8, <2>1 DEF NoneNewer, RealSessions, Old
  <2>3. Old(fiber[f].cred.access)'
    BY <1>5, <1>7 DEF Old
  <2>4. Old(refresh.tok)' /\ \A g \in Fibers : g # f => Old(fiber[g].cred.access)' /\ Old(fiber[g].tok)'
    BY <1>3, <1>4, <1>5, IdleFacts, NobodyFacts, NoRefreshFacts, TokenFacts DEF Old
  <2> QED
    BY <2>2, <2>3, <2>4 DEF NoneNewer
<1>10. Fresh' /\ RetriesValid'
  BY <1>3, <1>4, <1>5, NoRefreshFacts, IdleFacts DEF Fresh, RetriesValid
<1>11. EndsRevoked'
  BY <1>1, <1>3, <1>4, <1>5, IdleFacts DEF EndsRevoked, Calm, Sound
<1> QED
  BY <1>9, <1>10, <1>11 DEF ExpiryInv

LEMMA StoreEnds ==
  ASSUME SessionInv, ExpiryInv, NEW f \in Fibers, NEW k \in Keys, Store(f, k)
  PROVE  ExpiryInv'
<1>1. /\ NoneNewer /\ EndsRevoked /\ RestTyped /\ fiber \in [Fibers -> FiberRecords]
      /\ fiber[f].pc = "store" /\ fiber' = [fiber EXCEPT ![f].todo = @ \ {k}]
      /\ disk' = [disk EXCEPT ![k] = fiber[f].cred[k]]
      /\ UNCHANGED <<issued, valid, revoked, auth, refresh, revived, crashes, faults>>
  BY TypeParts DEF SessionInv, ExpiryInv, Store, server, bounds
<1>2. /\ ~auth.loading /\ refresh = NoRefresh /\ \A g \in Fibers : g # f => fiber[g] = Idle
  BY <1>1, NobodyElse DEF SigningIn
<1>3. /\ fiber'[f].pc = "store" /\ fiber'[f].cred = fiber[f].cred /\ fiber'[f].tok = fiber[f].tok
      /\ \A g \in Fibers : g # f => fiber'[g] = fiber[g]
  BY <1>1 DEF FiberRecords
<1>4. disk'.access \in {disk.access, fiber[f].cred.access}
  BY <1>1 DEF RestTyped, Credentials, Keys
<1>5. NoneNewer'
  BY <1>1, <1>3, <1>4 DEF NoneNewer, Old
<1>6. Fresh' /\ RetriesValid'
  BY <1>1, <1>2, <1>3, NoRefreshFacts, IdleFacts DEF Fresh, RetriesValid
<1>7. EndsRevoked'
  BY <1>1, <1>2, <1>3, IdleFacts DEF EndsRevoked, Calm, Sound
<1> QED
  BY <1>5, <1>6, <1>7 DEF ExpiryInv

LEMMA SetSessionEnds ==
  ASSUME SessionInv, ExpiryInv, NEW f \in Fibers, SetSession(f)
  PROVE  ExpiryInv'
<1> DEFINE c == fiber[f].cred
<1>1. /\ NoneNewer /\ EndsRevoked /\ RestTyped /\ fiber \in [Fibers -> FiberRecords] /\ Stores
      /\ fiber[f].pc = "store" /\ fiber' = [fiber EXCEPT ![f] = Idle]
      /\ auth' = [loading |-> FALSE, cred |-> c]
      /\ UNCHANGED <<issued, valid, revoked, disk, refresh, revived, crashes, faults>>
  BY TypeParts DEF SessionInv, ExpiryInv, SetSession, server, bounds
<1>2. refresh = NoRefresh /\ \A g \in Fibers : fiber'[g] = Idle
  BY <1>1, NobodyElse DEF SigningIn
<1>3. c.access # NoToken /\ c.refresh # NoSession
  <2>1. Whole(c) /\ c.access \in Tokens \cup {NoToken}
    BY <1>1, Fields DEF Stores, Storing
  <2> QED
    BY <2>1, TokenFacts DEF Whole
<1>4. NoneNewer'
  BY <1>1, <1>2, IdleFacts, NobodyFacts, TokenFacts DEF NoneNewer, Old
<1>5. Fresh' /\ RetriesValid'
  BY <1>1, <1>2, NoRefreshFacts, IdleFacts DEF Fresh, RetriesValid
<1>6. EndsRevoked'
  BY <1>1, <1>2, <1>3, IdleFacts DEF EndsRevoked, Calm, Sound
<1> QED
  BY <1>4, <1>5, <1>6 DEF ExpiryInv

LEMMA WipeEnds ==
  ASSUME SessionInv, ExpiryInv, NEW f \in Fibers, NEW k \in Keys, Wipe(f, k)
  PROVE  ExpiryInv'
<1>1. /\ NoneNewer /\ Fresh /\ RetriesValid /\ EndsRevoked /\ RestTyped /\ fiber \in [Fibers -> FiberRecords]
      /\ fiber[f].pc = "wipe" /\ fiber' = [fiber EXCEPT ![f].todo = @ \ {k}]
      /\ disk' = [disk EXCEPT ![k] = Nobody[k]]
      /\ UNCHANGED <<issued, valid, revoked, auth, refresh, revived, crashes, faults>>
  BY TypeParts DEF SessionInv, ExpiryInv, Wipe, server, bounds
<1>2. ~auth.loading
  BY <1>1, UnderWay
<1>3. \A g \in Fibers : /\ fiber'[g].pc = fiber[g].pc /\ fiber'[g].cred = fiber[g].cred /\ fiber'[g].tok = fiber[g].tok
                        /\ fiber'[g].status = fiber[g].status
  BY <1>1 DEF FiberRecords
<1>4. disk'.access \in {disk.access, NoToken}
  BY <1>1, NobodyFacts DEF RestTyped, Credentials, Keys
<1>5. NoneNewer'
  BY <1>1, <1>3, <1>4, TokenFacts DEF NoneNewer, Old
<1>6. Fresh' /\ RetriesValid'
  BY <1>1, <1>3 DEF Fresh, RetriesValid
<1>7. EndsRevoked'
  BY <1>1, <1>2, <1>3 DEF EndsRevoked, Calm, Sound, Ended
<1> QED
  BY <1>5, <1>6, <1>7 DEF ExpiryInv

LEMMA ClearEnds ==
  ASSUME SessionInv, ExpiryInv, NEW f \in Fibers, Clear(f)
  PROVE  ExpiryInv'
<1>1. /\ NoneNewer /\ Fresh /\ RetriesValid /\ EndsRevoked /\ Idles /\ RestTyped /\ fiber \in [Fibers -> FiberRecords]
      /\ fiber[f].pc = "wipe" /\ auth' = [loading |-> FALSE, cred |-> Nobody]
      /\ UNCHANGED <<issued, valid, revoked, disk, refresh, revived, crashes, faults>>
  BY TypeParts DEF SessionInv, ExpiryInv, Clear, server, bounds
<1>2. \A g \in Fibers : ~Storing(g)
  BY <1>1, UnderWay
<1>3. \A g \in Fibers : \/ fiber'[g] = Idle
                        \/ /\ fiber'[g].pc = fiber[g].pc /\ fiber'[g].cred = fiber[g].cred
                           /\ fiber'[g].tok = fiber[g].tok /\ fiber'[g].status = fiber[g].status
  BY <1>1 DEF Clear, FiberRecords
<1>4. NoneNewer'
  BY <1>1, <1>3, IdleFacts, NobodyFacts, TokenFacts DEF NoneNewer, Old
<1>5. Fresh'
  BY <1>1, <1>3, IdleFacts, NobodyFacts DEF Fresh, Idles
<1>6. RetriesValid'
  BY <1>1, <1>3, IdleFacts DEF RetriesValid
<1>7. EndsRevoked'
  <2> SUFFICES ASSUME Calm' PROVE EndsRevoked'
    BY DEF EndsRevoked
  <2>1. Calm
    BY <1>1 DEF Calm
  <2>2. \A g \in Fibers : Sound(fiber[g])
    BY <1>1, <2>1 DEF EndsRevoked
  <2>3. fiber[f].cred.refresh \in revoked /\ fiber[f].cred.refresh # NoSession
    BY <1>1, <2>2 DEF Sound, Ended
  <2>4. \A g \in Fibers : fiber[g].cred.refresh # NoSession => fiber[g].cred.refresh = fiber[f].cred.refresh
    <3>1. PICK s : \A c \in {auth.cred.refresh, refresh.s} \cup {fiber[g].cred.refresh : g \in Fibers} : c \in {NoSession, s}
      BY <1>2, <2>1, SameSession
    <3>2. \A g \in Fibers : fiber[g].cred.refresh \in {NoSession, s}
      BY <3>1
    <3> QED
      BY <2>3, <3>2
  <2>5. \A g \in Fibers : Sound(fiber[g])'
    BY <1>1, <1>3, <2>2, <2>3, <2>4, IdleFacts DEF Sound
  <2> QED
    BY <1>1, <2>5, NobodyFacts DEF EndsRevoked
<1> QED
  BY <1>4, <1>5, <1>6, <1>7 DEF ExpiryInv

LEMMA GrantedEnds ==
  ASSUME SessionInv, ExpiryInv, RefreshGranted
  PROVE  ExpiryInv'
<1>1. /\ NoneNewer /\ RetriesValid /\ EndsRevoked /\ RestTyped /\ fiber \in [Fibers -> FiberRecords]
      /\ Idles /\ refresh.pc = "sent"
      /\ UNCHANGED <<revoked, disk, auth, fiber, revived, crashes, faults>>
  BY TypeParts DEF SessionInv, ExpiryInv, RefreshGranted, bounds
<1>2. refresh.s \in Sessions /\ refresh \in Refreshes
  BY <1>1, Fields DEF Idles, RestTyped
<1>3. PICK tok : /\ tok.s = refresh.s /\ tok.n = issued[refresh.s] + 1
                 /\ issued' = [issued EXCEPT ![tok.s] = tok.n]
                 /\ valid' = valid \cup {tok} /\ refresh'.tok = tok
  BY <1>2 DEF RefreshGranted, Refreshes
<1>4. issued[refresh.s] \in Nat /\ issued'[refresh.s] = issued[refresh.s] + 1
      /\ \A r \in Sessions : r # refresh.s => issued'[r] = issued[r]
  BY <1>1, <1>2, <1>3 DEF RestTyped
<1>5. ASSUME NEW old \in Tokens \cup {NoToken}, Old(old) 
      PROVE  old # tok /\ (old.s # NoSession => old.n <= issued'[old.s])
  BY <1>2, <1>3, <1>4, <1>5, TokenFacts DEF Old
<1>6. /\ auth.cred.access \in Tokens \cup {NoToken} /\ disk.access \in Tokens \cup {NoToken}
      /\ \A f \in Fibers : fiber[f].cred.access \in Tokens \cup {NoToken} /\ fiber[f].tok \in Tokens \cup {NoToken}
  BY <1>1, Fields DEF RestTyped
<1>7. NoneNewer'
  <2>1. Old(refresh.tok)'
    BY <1>3, <1>4 DEF Old
  <2> QED
    BY <1>1, <1>5, <1>6, <2>1 DEF NoneNewer, Old
<1>8. Fresh'
  BY <1>1, <1>3, <1>5, <1>6 DEF Fresh, NoneNewer
<1>9. RetriesValid' /\ EndsRevoked'
  BY <1>1, <1>3 DEF RetriesValid, EndsRevoked, Calm, Sound, Ended
<1> QED
  BY <1>7, <1>8, <1>9 DEF ExpiryInv

LEMMA DeniedEnds ==
  ASSUME SessionInv, ExpiryInv, RefreshDenied
  PROVE  ExpiryInv'
<1>1. /\ NoneNewer /\ RetriesValid /\ EndsRevoked /\ Idles /\ Alone /\ BoundsTyped /\ fiber \in [Fibers -> FiberRecords]
      /\ refresh.pc = "sent" /\ refresh.s # NoSession /\ refresh' = NoRefresh /\ Resume(NoToken)
      /\ UNCHANGED <<issued, valid, revoked, disk, auth>>
      /\ (refresh.s \in revoked /\ UNCHANGED bounds) \/ Fail
  BY TypeParts DEF SessionInv, ExpiryInv, RefreshDenied, server, Idles
<1>2. /\ \A g \in Fibers : /\ fiber'[g].cred = fiber[g].cred /\ fiber'[g].tok = fiber[g].tok
                           /\ fiber[g].pc # "await" => fiber'[g] = fiber[g]
                           /\ fiber[g].pc = "await" => fiber'[g].pc = "answered"
  BY <1>1, ResumeFacts
<1>3. NoneNewer'
  BY <1>1, <1>2, NoRefreshFacts, TokenFacts DEF NoneNewer, Old
<1>4. Fresh' /\ RetriesValid'
  BY <1>1, <1>2, NoRefreshFacts DEF Fresh, RetriesValid
<1>5. EndsRevoked'
  <2> SUFFICES ASSUME Calm' PROVE EndsRevoked'
    BY DEF EndsRevoked
  <2>1. Calm /\ ~Fail
    BY <1>1, FaultCounts, SessionAssumption DEF Calm, Fail, BoundsTyped
  <2>2. \A g \in Fibers : Sound(fiber[g])
    BY <1>1, <2>1 DEF EndsRevoked
  <2>3. \A g \in Fibers : ~Storing(g)
    BY <1>1 DEF Alone, SigningIn, Storing
  <2>4. PICK s : \A c \in {auth.cred.refresh, refresh.s} \cup {fiber[g].cred.refresh : g \in Fibers} : c \in {NoSession, s}
    BY <2>1, <2>3, SameSession
  <2>5. s \in revoked /\ \A g \in Fibers : fiber[g].cred.refresh \in {NoSession, s}
    BY <1>1, <2>1, <2>4
  <2>6. \A g \in Fibers : Sound(fiber[g])'
    BY <1>1, <1>2, <2>2, <2>5 DEF Sound, Ended
  <2> QED
    BY <1>1, <2>1, <2>6 DEF EndsRevoked
<1> QED
  BY <1>3, <1>4, <1>5 DEF ExpiryInv

LEMMA WriteEnds ==
  ASSUME SessionInv, ExpiryInv, RefreshWrite
  PROVE  ExpiryInv'
<1>1. /\ NoneNewer /\ Fresh /\ RetriesValid /\ EndsRevoked /\ Idles /\ RestTyped /\ refresh.pc = "write"
      /\ disk' = [disk EXCEPT !.access = refresh.tok] /\ refresh' = [refresh EXCEPT !.pc = "set"]
      /\ revived' = (revived \/ disk.access = NoToken)
      /\ UNCHANGED <<issued, valid, revoked, auth, fiber, crashes, faults>>
  BY TypeParts DEF SessionInv, ExpiryInv, RefreshWrite, server
<1>2. /\ disk'.access = refresh.tok /\ refresh'.pc = "set" /\ refresh'.tok = refresh.tok
      /\ ~auth.loading
  BY <1>1 DEF RestTyped, Credentials, Refreshes, Idles, Quiet
<1>3. NoneNewer'
  BY <1>1, <1>2 DEF NoneNewer, Old
<1>4. Fresh' /\ RetriesValid'
  BY <1>1, <1>2 DEF Fresh, RetriesValid
<1>5. Calm' => Calm
  BY <1>1 DEF Calm, SessionInv, TypeOK
<1>6. EndsRevoked'
  BY <1>1, <1>2, <1>5 DEF EndsRevoked, Sound, Ended
<1> QED
  BY <1>3, <1>4, <1>6 DEF ExpiryInv

LEMMA SetEnds ==
  ASSUME SessionInv, ExpiryInv, RefreshSet
  PROVE  ExpiryInv'
<1>1. /\ NoneNewer /\ Fresh /\ RetriesValid /\ EndsRevoked /\ Idles /\ RestTyped /\ BoundsTyped
      /\ fiber \in [Fibers -> FiberRecords] /\ refresh.pc = "set" /\ refresh' = NoRefresh /\ Resume(refresh.tok)
      /\ auth' = [auth EXCEPT !.cred.access = refresh.tok]
      /\ revived' = (revived \/ auth.cred.access = NoToken)
      /\ UNCHANGED <<issued, valid, revoked, disk, crashes, faults>>
  BY TypeParts DEF SessionInv, ExpiryInv, RefreshSet, server
<1>2. /\ refresh.tok \in Tokens \cup {NoToken} /\ refresh.tok # NoToken /\ ~auth.loading
      /\ auth'.cred.access = refresh.tok /\ auth'.cred.refresh = auth.cred.refresh /\ auth'.loading = auth.loading
  BY <1>1, Fields DEF RestTyped, Credentials, Idles, Quiet
<1>3. \A g \in Fibers : /\ fiber'[g].cred = fiber[g].cred
                        /\ fiber[g].pc # "await" => fiber'[g] = fiber[g]
                        /\ fiber[g].pc = "await" => fiber'[g].pc = "resent" /\ fiber'[g].tok = refresh.tok
  BY <1>1, <1>2, ResumeFacts DEF Fresh
<1>4. NoneNewer'
  BY <1>1, <1>2, <1>3, NoRefreshFacts, TokenFacts DEF NoneNewer, Old
<1>5. Fresh' /\ RetriesValid'
  BY <1>1, <1>3, NoRefreshFacts DEF Fresh, RetriesValid
<1>6. Calm' => Calm /\ auth.cred.access # NoToken
  BY <1>1 DEF Calm, BoundsTyped
<1>7. EndsRevoked'
  BY <1>1, <1>2, <1>3, <1>6 DEF EndsRevoked, Sound, Ended
<1> QED
  BY <1>4, <1>5, <1>7 DEF ExpiryInv

LEMMA EnvironmentEnds ==
  ASSUME SessionInv, ExpiryInv, Crash \/ \E tok \in valid : Expire(tok)
  PROVE  ExpiryInv'
<1>1. NoneNewer /\ Fresh /\ RetriesValid /\ EndsRevoked /\ BoundsTyped
  BY TypeParts DEF SessionInv, ExpiryInv
<1>2. ASSUME NEW tok \in valid, Expire(tok) PROVE ExpiryInv'
  <2>1. /\ valid' = valid \ {tok} /\ refresh.tok # tok /\ \A f \in Fibers : ~(fiber[f].pc = "resent" /\ fiber[f].tok = tok)
        /\ UNCHANGED <<revoked, issued, disk, auth, refresh, fiber, revived, crashes, faults>>
    BY <1>2 DEF Expire
  <2>2. NoneNewer' /\ Fresh' /\ RetriesValid' /\ EndsRevoked'
    BY <1>1, <2>1 DEF NoneNewer, Old, Fresh, RetriesValid, EndsRevoked, Calm, Sound, Ended
  <2> QED
    BY <2>2 DEF ExpiryInv
<1>3. CASE Crash
  <2>1. /\ crashes' = crashes + 1 /\ auth' = [loading |-> TRUE, cred |-> Nobody] /\ refresh' = NoRefresh
        /\ fiber' = [f \in Fibers |-> Idle] /\ UNCHANGED <<issued, valid, disk>>
    BY <1>3 DEF Crash, server
  <2>2. crashes \in Nat
    BY <1>1, SessionAssumption DEF BoundsTyped
  <2>3. NoneNewer'
    BY <1>1, <2>1, IdleFacts, NobodyFacts, NoRefreshFacts, TokenFacts DEF NoneNewer, Old
  <2>4. Fresh' /\ RetriesValid'
    BY <2>1, IdleFacts, NoRefreshFacts DEF Fresh, RetriesValid
  <2>5. ~Calm'
    BY <2>1, <2>2 DEF Calm
  <2> QED
    BY <2>3, <2>4, <2>5 DEF ExpiryInv, EndsRevoked
<1> QED
  BY <1>2, <1>3

LEMMA ExpiryInvInit == Init => ExpiryInv
<1> SUFFICES ASSUME Init PROVE ExpiryInv
  OBVIOUS
<1>1. /\ auth = [loading |-> TRUE, cred |-> Nobody] /\ disk = Nobody /\ refresh = NoRefresh
      /\ \A f \in Fibers : fiber[f] = Idle
  BY DEF Init
<1> QED
  BY <1>1, IdleFacts, NobodyFacts, TokenFacts, NoRefreshFacts
     DEF ExpiryInv, NoneNewer, Old, Fresh, RetriesValid, EndsRevoked, Sound

LEMMA ExpiryInvStep ==
  ASSUME SessionInv, ExpiryInv, [Next]_vars
  PROVE  ExpiryInv'
<1>1. CASE UNCHANGED vars
  <2>1. UNCHANGED <<revoked, issued, valid, disk, auth, refresh, fiber, revived, crashes, faults>>
    BY <1>1 DEF vars, server, bounds
  <2> QED
    BY <2>1 DEF ExpiryInv, NoneNewer, Old, Fresh, RetriesValid, EndsRevoked, Calm, Sound, Ended
<1>2. CASE Bootstrap \/ RefreshStep \/ Crash
  BY <1>2, BootstrapEnds, GrantedEnds, DeniedEnds, WriteEnds, SetEnds, EnvironmentEnds DEF RefreshStep
<1>3. ASSUME NEW f \in Fibers, User(f) PROVE ExpiryInv'
  <2>1. "query" \in Ops
    BY DEF Ops
  <2> QED
    BY <1>3, <2>1, StartEnds DEF User
<1>4. ASSUME NEW f \in Fibers, Progress(f) PROVE ExpiryInv'
  <2>1. "query" \in Ops
    BY DEF Ops
  <2> QED
    BY <1>4, <2>1, StartEnds, AdmitEnds, StoreEnds, WipeEnds, SetSessionEnds, LogoutEnds, ClearEnds, ServeEnds,
       AskRefreshEnds, TakeEnds DEF Progress
<1>5. ASSUME NEW f \in Fibers, RetryQuery(f) PROVE ExpiryInv'
  BY <1>5, TakeEnds
<1>6. ASSUME \E tok \in valid : Expire(tok) PROVE ExpiryInv'
  BY <1>6, EnvironmentEnds
<1> QED
  BY <1>1, <1>2, <1>3, <1>4, <1>5, <1>6 DEF Next

(* Expiry alone never signs a patient user out (ExpiryIsInvisible): as     *)
(* long as no request is lost and the app is not killed, a query ends with *)
(* a 401 only if the server has revoked its session, for any number of     *)
(* callers that share, repeat or outlive a refresh. ExpiryInv says why: a  *)
(* token refreshSession returned is valid and new to everybody (Fresh), so *)
(* that whoever waited does retry with it and the retry is accepted, and a *)
(* refresh is only refused, or has no refresh token to use, once the       *)
(* session has been revoked (EndsRevoked).                                 *)
THEOREM ExpiryUnseen == Patient => (Spec => []ExpiryIsInvisible)
<1> SUFFICES ASSUME Patient PROVE Spec => []ExpiryIsInvisible
  OBVIOUS
<1>1. Init => SessionInv /\ ExpiryInv
  BY SessionInvInit, ExpiryInvInit
<1>2. SessionInv /\ ExpiryInv /\ [Next]_vars => (SessionInv /\ ExpiryInv)'
  BY SessionInvStep, ExpiryInvStep
<1>3. SessionInv /\ ExpiryInv => ExpiryIsInvisible
  BY DEF ExpiryInv, EndsRevoked, Sound, Ended, Calm, ExpiryIsInvisible
<1> QED
  BY <1>1, <1>2, <1>3, PTL DEF Spec
=============================================================================
