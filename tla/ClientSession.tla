----------------------------- MODULE ClientSession ----------------------------
(* The session of the mobile app: three keys in the secure store, the state *)
(* of AuthProvider, the one refresh apiRequest shares between callers, and  *)
(* the answers screens keep in the query cache under a user's id.           *)
(* JavaScript runs one callback at a time; a fiber is one async call and a  *)
(* step of it is the code between two awaits.                               *)
EXTENDS Integers, FiniteSets

CONSTANTS
    Users, NoUser,
    Fibers,         \* async calls that may be under way at once
    MaxSignIns,     \* bound on sessions
    MaxExpiries,    \* bound on access tokens that expire
    MaxTroubles,    \* bound on kills of the app and requests without an answer
    Patient         \* the user signs in only when nothing is under way, deletes the
                    \* account only then, and signs out with queries under way at most

ASSUME SessionAssumption == NoUser \notin Users /\ {MaxSignIns, MaxExpiries, MaxTroubles} \subseteq Nat

VARIABLES
    owner,      \* server: the user of each session
    revoked,    \* server: sessions whose refresh token is refused
    issued,     \* server: access tokens issued for each session
    valid,      \* server: access tokens that have not expired
    disk,       \* the keys mc_access_token, mc_refresh_token, mc_user_id
    auth,       \* the state of AuthProvider
    refresh,    \* refreshInFlight
    cache,      \* users whose data is in the query cache under a user's key
    fiber,
    revived,    \* history: a refresh set a token after a sign-out had removed it
    torn,       \* history: kills of the app that left the keys half written or half deleted
    expiries, crashes, faults

server == <<owner, revoked, issued, valid>>
bounds == <<revived, torn, expiries, crashes, faults>>
vars == <<server, disk, auth, refresh, cache, fiber, bounds>>

Sessions == 1..MaxSignIns
NoSession == 0
Tokens == [s : Sessions, n : Nat \ {0}]
NoToken == [s |-> NoSession, n |-> 0]
Keys == {"access", "refresh", "user"}
Credentials == [access : Tokens \cup {NoToken}, refresh : Sessions \cup {NoSession},
                user : Users \cup {NoUser}]
Nobody == [access |-> NoToken, refresh |-> NoSession, user |-> NoUser]
Ops == {"signin", "query", "patch", "delete", "signout"}
Pcs == {"idle", "ask", "store", "sent", "denied", "await", "resent", "answered", "logout", "wipe"}
Idle == [pc |-> "idle", op |-> "query", cred |-> Nobody, tok |-> NoToken, todo |-> {},
         status |-> "none", orphan |-> FALSE]
NoRefresh == [pc |-> "idle", s |-> NoSession, tok |-> NoToken]

TypeOK ==
    /\ owner \in [Sessions -> Users \cup {NoUser}]
    /\ revoked \subseteq Sessions
    /\ issued \in [Sessions -> Nat]
    /\ valid \subseteq Tokens
    /\ disk \in Credentials
    /\ auth \in [loading : BOOLEAN, cred : Credentials]
    /\ refresh \in [pc : {"idle", "sent", "write", "set"}, s : Sessions \cup {NoSession},
                    tok : Tokens \cup {NoToken}]
    /\ cache \in [Users \cup {NoUser} -> SUBSET Users]
    /\ fiber \in [Fibers -> [pc : Pcs, op : Ops, cred : Credentials,
                             tok : Tokens \cup {NoToken}, todo : SUBSET Keys, status : {"none", "ok", "401", "fail"}, orphan : BOOLEAN]]
    /\ revived \in BOOLEAN
    /\ torn \in 0..MaxTroubles
    /\ expiries \in 0..MaxExpiries /\ {crashes, faults, crashes + faults} \subseteq 0..MaxTroubles

EmptyCache == [u \in Users \cup {NoUser} |-> {}]

Init ==
    /\ owner = [s \in Sessions |-> NoUser]
    /\ revoked = {}
    /\ issued = [s \in Sessions |-> 0]
    /\ valid = {}
    /\ disk = Nobody
    /\ auth = [loading |-> TRUE, cred |-> Nobody]
    /\ refresh = NoRefresh
    /\ cache = EmptyCache
    /\ fiber = [f \in Fibers |-> Idle]
    /\ revived = FALSE /\ torn = 0
    /\ expiries = 0 /\ crashes = 0 /\ faults = 0

Quiet == refresh.pc = "idle" /\ \A f \in Fibers : fiber[f].pc = "idle"
SignedIn == ~auth.loading /\ auth.cred.access # NoToken
Fail == crashes + faults < MaxTroubles /\ faults' = faults + 1 /\ UNCHANGED <<revived, torn, expiries, crashes>>

----------------------------------------------------------------------------
(* AuthProvider                                                            *)

\* The effect that restores the session.
Bootstrap ==
    /\ auth.loading
    /\ auth' = [loading |-> FALSE, cred |-> disk]
    /\ UNCHANGED <<server, disk, refresh, cache, fiber, bounds>>

\* A sign-in screen calls oauthLogin, loginWithEmail or registerWithEmail.
SignIn(f) ==
    /\ fiber[f].pc = "idle"
    /\ ~auth.loading /\ ~SignedIn
    /\ Patient => Quiet
    /\ fiber' = [fiber EXCEPT ![f] = [Idle EXCEPT !.pc = "ask", !.op = "signin"]]
    /\ UNCHANGED <<server, disk, auth, refresh, cache, bounds>>

\* The server creates a session; the answer goes to setSession.
Admit(f, u) ==
    /\ fiber[f].pc = "ask"
    /\ \E s \in Sessions :
         /\ owner[s] = NoUser
         /\ \A r \in 1..s - 1 : owner[r] # NoUser
         /\ LET tok == [s |-> s, n |-> 1] IN
              /\ owner' = [owner EXCEPT ![s] = u]
              /\ issued' = [issued EXCEPT ![s] = 1]
              /\ valid' = valid \cup {tok}
              /\ fiber' = [fiber EXCEPT ![f].pc = "store", ![f].todo = Keys,
                             ![f].cred = [access |-> tok, refresh |-> s, user |-> u]]
    /\ UNCHANGED <<revoked, disk, auth, refresh, cache, bounds>>

\* A refused or failed sign-in only shows an alert.
Refuse(f) ==
    /\ fiber[f].pc = "ask"
    /\ fiber' = [fiber EXCEPT ![f] = Idle]
    /\ UNCHANGED <<server, disk, auth, refresh, cache, bounds>>

\* setSession: three setItemAsync in any order, then setState.
Store(f, k) ==
    /\ fiber[f].pc = "store" /\ k \in fiber[f].todo
    /\ disk' = [disk EXCEPT ![k] = fiber[f].cred[k]]
    /\ fiber' = [fiber EXCEPT ![f].todo = @ \ {k}]
    /\ UNCHANGED <<server, auth, refresh, cache, bounds>>

SetSession(f) ==
    /\ fiber[f].pc = "store" /\ fiber[f].todo = {}
    /\ auth' = [loading |-> FALSE, cred |-> fiber[f].cred]
    /\ fiber' = [fiber EXCEPT ![f] = Idle]
    /\ UNCHANGED <<server, disk, refresh, cache, bounds>>

\* The sign-out button calls clearSession, as it was when the screen was rendered.
SignOut(f) ==
    /\ fiber[f].pc = "idle"
    /\ SignedIn
    /\ Patient => \A g \in Fibers : fiber[g].op = "query"
    /\ fiber' = [fiber EXCEPT ![f] = [Idle EXCEPT !.pc = "logout", !.op = "signout", !.cred = auth.cred]]
    /\ UNCHANGED <<server, disk, auth, refresh, cache, bounds>>

\* Mutated form: a key under another name.
LogoutOtherKey(f) ==
    /\ fiber[f].pc = "logout"
    /\ fiber' = [fiber EXCEPT ![f].pc = "wipe", ![f].todo = {"access", "refresh", "user_id"}]
    /\ UNCHANGED <<server, disk, auth, refresh, cache, bounds>>

\* clearSession: logout, whose failure is ignored,
Logout(f) ==
    /\ fiber[f].pc = "logout"
    /\ LET s == fiber[f].cred.refresh IN
         \/ revoked' = (IF s = NoSession THEN revoked ELSE revoked \cup {s}) /\ UNCHANGED bounds
         \/ s # NoSession /\ Fail /\ UNCHANGED revoked
    /\ fiber' = [fiber EXCEPT ![f].pc = "wipe", ![f].todo = Keys]
    /\ UNCHANGED <<owner, issued, valid, disk, auth, refresh, cache>>

\* Mutated form: only the access token is deleted.
WipeAccess(f, k) ==
    /\ fiber[f].pc = "wipe" /\ k \in fiber[f].todo
    /\ disk' = IF k = "access" THEN [disk EXCEPT ![k] = Nobody[k]] ELSE disk
    /\ fiber' = [fiber EXCEPT ![f].todo = @ \ {k}]
    /\ UNCHANGED <<server, auth, refresh, cache, bounds>>

\* then three deleteItemAsync in any order,
Wipe(f, k) ==
    /\ fiber[f].pc = "wipe" /\ k \in fiber[f].todo
    /\ disk' = [disk EXCEPT ![k] = Nobody[k]]
    /\ fiber' = [fiber EXCEPT ![f].todo = @ \ {k}]
    /\ UNCHANGED <<server, auth, refresh, cache, bounds>>

\* then queryClient.clear() and setState. Queries under way lose their entry.
Clear(f) ==
    /\ fiber[f].pc = "wipe" /\ fiber[f].todo = {}
    /\ cache' = EmptyCache
    /\ auth' = [loading |-> FALSE, cred |-> Nobody]
    /\ fiber' = [g \in Fibers |-> IF g = f \/ fiber[g].pc = "idle" THEN Idle
                                           ELSE [fiber[g] EXCEPT !.orphan = @ \/ (fiber[g].op = "query" /\ fiber[g].todo = {})]]
    /\ UNCHANGED <<server, disk, refresh, bounds>>

----------------------------------------------------------------------------
(* apiRequest                                                              *)

\* A hook's queryFn, a save or a deletion, with the token of the render it
\* comes from.
Call(f, op) ==
    /\ fiber[f].pc = "idle"
    /\ op \in {"query", "patch", "delete"}
    /\ SignedIn
    /\ op = "delete" /\ Patient => Quiet
    /\ fiber' = [fiber EXCEPT ![f] = [Idle EXCEPT !.pc = "sent", !.op = op,
                                         !.cred = auth.cred, !.tok = auth.cred.access]]
    /\ UNCHANGED <<server, disk, auth, refresh, cache, bounds>>

\* doRequest: the server looks at the token only. Deleting an account
\* removes the user's sessions.
Serve(f) ==
    /\ fiber[f].pc \in {"sent", "resent"}
    /\ LET tok == fiber[f].tok
           ok == tok \in valid
       IN  \/ /\ fiber' = [fiber EXCEPT
                    ![f].status = IF ok THEN "ok" ELSE "401",
                    ![f].pc = IF ~ok /\ @ = "sent" THEN "denied" ELSE "answered"]
              /\ revoked' = IF ok /\ fiber[f].op = "delete"
                            THEN revoked \cup {s \in Sessions : owner[s] = owner[tok.s]} ELSE revoked
              /\ UNCHANGED bounds
           \/ /\ Fail
              /\ fiber' = [fiber EXCEPT ![f].status = "fail", ![f].pc = "answered"]
              /\ UNCHANGED revoked
    /\ UNCHANGED <<owner, issued, valid, disk, auth, refresh, cache>>

\* refreshAccessTokenOnce: join the refresh under way, or start one with the
\* refresh token of the handler's render; without one it returns null.
AskRefresh(f) ==
    /\ fiber[f].pc = "denied"
    /\ IF refresh.pc = "idle" /\ auth.cred.refresh = NoSession
       THEN /\ fiber' = [fiber EXCEPT ![f].pc = "answered"]
            /\ UNCHANGED refresh
       ELSE /\ fiber' = [fiber EXCEPT ![f].pc = "await"]
            /\ refresh' = IF refresh.pc = "idle"
                          THEN [pc |-> "sent", s |-> auth.cred.refresh, tok |-> NoToken] ELSE refresh
    /\ UNCHANGED <<server, disk, auth, cache, bounds>>

\* Mutated form: a waiting caller takes its 401 as the answer.
ResumeRefused(tok) ==
    fiber' = [f \in Fibers |-> IF fiber[f].pc # "await" THEN fiber[f] ELSE [fiber[f] EXCEPT !.pc = "answered"]]

\* Those who wait retry once with a new token, or keep their 401.
Resumed(q, tok) ==
    IF q.pc # "await" THEN q
    ELSE IF tok \in {NoToken, q.tok} THEN [q EXCEPT !.pc = "answered"]
    ELSE [q EXCEPT !.pc = "resent", !.tok = tok]
Resume(tok) == fiber' = [f \in Fibers |-> Resumed(fiber[f], tok)]

\* refreshSession succeeds,
RefreshGranted ==
    /\ refresh.pc = "sent"
    /\ refresh.s \notin revoked
    /\ LET tok == [s |-> refresh.s, n |-> issued[refresh.s] + 1] IN
         /\ issued' = [issued EXCEPT ![tok.s] = tok.n]
         /\ valid' = valid \cup {tok}
         /\ refresh' = [refresh EXCEPT !.pc = "write", !.tok = tok]
    /\ UNCHANGED <<owner, revoked, disk, auth, cache, fiber, bounds>>

\* Mutated form: a refused refresh is never settled for those who wait.
RefreshForgotten ==
    /\ refresh.pc = "sent"
    /\ (refresh.s \in revoked /\ UNCHANGED bounds) \/ Fail
    /\ refresh' = NoRefresh
    /\ UNCHANGED <<server, disk, auth, cache, fiber>>

\* or returns null, whatever the reason.
RefreshDenied ==
    /\ refresh.pc = "sent"
    /\ (refresh.s \in revoked /\ UNCHANGED bounds) \/ Fail
    /\ refresh' = NoRefresh
    /\ Resume(NoToken)
    /\ UNCHANGED <<server, disk, auth, cache>>

RefreshWrite ==
    /\ refresh.pc = "write"
    /\ disk' = [disk EXCEPT !.access = refresh.tok]
    /\ refresh' = [refresh EXCEPT !.pc = "set"]
    /\ revived' = (revived \/ disk.access = NoToken)
    /\ UNCHANGED <<server, auth, cache, fiber, torn, expiries, crashes, faults>>

\* setState on whatever the state is by now.
RefreshSet ==
    /\ refresh.pc = "set"
    /\ auth' = [auth EXCEPT !.cred.access = refresh.tok]
    /\ refresh' = NoRefresh
    /\ Resume(refresh.tok)
    /\ revived' = (revived \/ auth.cred.access = NoToken)
    /\ UNCHANGED <<server, disk, cache, torn, expiries, crashes, faults>>

\* The caller takes the answer: a query stores it under the user of its
\* render, throws, retries with the same render, or signs out on a 401; a
\* successful deletion signs out.
Take(f) ==
    /\ fiber[f].pc = "answered"
    /\ LET me == fiber[f]
           stores == me.op = "query" /\ me.status = "ok" /\ ~me.orphan
           leaves == (me.op = "query" /\ me.status = "401") \/ (me.op = "delete" /\ me.status = "ok")
       IN  /\ cache' = IF stores THEN [cache EXCEPT ![me.cred.user] = {owner[me.tok.s]}] ELSE cache
           /\ fiber' = [fiber EXCEPT ![f] =
                IF leaves THEN [me EXCEPT !.pc = "logout", !.tok = NoToken, !.status = "none", !.orphan = FALSE]
                ELSE Idle]
    /\ UNCHANGED <<server, disk, auth, refresh, bounds>>

RetryQuery(f) ==
    /\ fiber[f].pc = "answered" /\ fiber[f].op = "query" /\ fiber[f].status = "fail"
    /\ ~fiber[f].orphan
    /\ fiber' = [fiber EXCEPT ![f].pc = "sent", ![f].status = "none", ![f].tok = fiber[f].cred.access]
    /\ UNCHANGED <<server, disk, auth, refresh, cache, bounds>>

----------------------------------------------------------------------------
(* The environment                                                         *)

\* An access token lives for minutes, a retry takes seconds.
Expire(tok) ==
    /\ tok \in valid /\ expiries < MaxExpiries
    /\ refresh.tok # tok
    /\ \A f \in Fibers : ~(fiber[f].pc = "resent" /\ fiber[f].tok = tok)
    /\ valid' = valid \ {tok}
    /\ expiries' = expiries + 1
    /\ UNCHANGED <<owner, revoked, issued, disk, auth, refresh, cache, fiber, revived, torn, crashes, faults>>

HalfDone(f) == fiber[f].pc \in {"store", "wipe"} /\ fiber[f].todo \notin {{}, Keys}

\* The app is killed and started again.
Crash ==
    /\ ~auth.loading /\ crashes + faults < MaxTroubles
    /\ crashes' = crashes + 1
    /\ torn' = IF \E f \in Fibers : HalfDone(f) THEN torn + 1 ELSE torn
    /\ auth' = [loading |-> TRUE, cred |-> Nobody]
    /\ refresh' = NoRefresh
    /\ cache' = EmptyCache
    /\ fiber' = [f \in Fibers |-> Idle]
    /\ UNCHANGED <<server, disk, revived, expiries, faults>>

User(f) == SignIn(f) \/ SignOut(f) \/ \E op \in Ops : Call(f, op)
Progress(f) ==
    \/ (\E u \in Users : Admit(f, u)) \/ Refuse(f)
    \/ (\E k \in Keys : Store(f, k) \/ Wipe(f, k))
    \/ SetSession(f) \/ Logout(f) \/ Clear(f)
    \/ Serve(f) \/ AskRefresh(f) \/ Take(f)
RefreshStep == RefreshGranted \/ RefreshDenied \/ RefreshWrite \/ RefreshSet

Next ==
    \/ Bootstrap \/ RefreshStep \/ Crash
    \/ \E f \in Fibers : User(f) \/ Progress(f) \/ RetryQuery(f)
    \/ \E tok \in valid : Expire(tok)

Spec == Init /\ [][Next]_vars

\* Requests are answered or fail, and callbacks run.
Fairness ==
    /\ WF_vars(Bootstrap) /\ WF_vars(RefreshStep)
    /\ \A f \in Fibers : WF_vars(Progress(f))
FairSpec == Spec /\ Fairness

----------------------------------------------------------------------------
(* Properties                                                              *)

(* A kill in the middle of setSession or clearSession leaves some of the   *)
(* three keys, and a refresh that was under way at a sign-out brings an    *)
(* access token back without its user. Either alone is harmless; a second  *)
(* one can leave the keys of two users beside each other. The properties   *)
(* of this section are about phones that have met one of them at most.     *)
Unharmed == torn = 0 \/ (torn = 1 /\ ~revived)

(* An answer a screen takes for the data of a user was authorised with a   *)
(* token of that user, although a retry may use a token another caller's   *)
(* refresh produced (apiRequest, refreshAccessTokenOnce).                  *)
AnswersAreOwn ==
    \A f \in Fibers :
        fiber[f].pc = "answered" /\ fiber[f].status = "ok" /\ fiber[f].cred.user # NoUser /\ Unharmed
            => owner[fiber[f].tok.s] = fiber[f].cred.user

(* The query cache holds no other user's data under a user's key: it is    *)
(* emptied by clearSession, and a query under way loses its entry.         *)
CacheIsOwn == Unharmed => \A u \in Users : cache[u] \subseteq {u}

(* The state of AuthProvider never mixes two sessions, although its parts  *)
(* are restored from three keys and the access token is set on its own.    *)
SessionIsWhole ==
    Unharmed =>
    LET c == auth.cred IN
        /\ c.access # NoToken /\ c.refresh # NoSession => c.access.s = c.refresh
        /\ c.access # NoToken /\ c.user # NoUser => owner[c.access.s] = c.user

(* Expiry alone never signs anybody out: if no request was lost and the    *)
(* app was not killed, a query ends with a 401 only if the server has      *)
(* revoked its session, however many callers share or repeat the refresh.  *)
ExpiryIsInvisible ==
    \A f \in Fibers :
        /\ fiber[f].pc = "answered" /\ fiber[f].status = "401"
        /\ faults = 0 /\ crashes = 0 /\ ~revived
        => fiber[f].cred.refresh \in revoked

(* Whoever has signed out stays signed out until a sign-in: a refresh that *)
(* was under way must not bring an access token back.                      *)
SignedOutStaysOut ==
    [][~auth.loading /\ ~SignedIn /\ SignedIn' => \E f \in Fibers : SetSession(f)]_vars

(* Every call a screen waits for comes to an end: nobody waits on a        *)
(* refresh that has been forgotten.                                        *)
CallsEnd == \A f \in Fibers : fiber[f].pc # "idle" ~> fiber[f].pc = "idle"

(* Two users of one phone stay apart: in the answers, in the cache and in  *)
(* the session that is kept.                                               *)
UsersStayApart == TypeOK /\ AnswersAreOwn /\ CacheIsOwn /\ SessionIsWhole
=============================================================================
