---------------------------- MODULE AppAuthProxy ----------------------------
(***************************************************************************)
(* app-auth-proxy (cmd/app-auth-proxy): a reverse proxy in front of the    *)
(* web applications of a robot cloud.  Requests for a protected route need *)
(* a session with a living token (AuthN_Handler) and a group that may use  *)
(* the method on the route (AuthZ_Handler).  Without a session the browser *)
(* is sent to the identity provider (IdP) and comes back to HandleCallback.*)
(*                                                                         *)
(* Requests are concurrent goroutines.  They share the session store, from *)
(* which a handler takes a copy and into which it saves the whole copy,    *)
(* and one field, oc.state, that holds the OAuth state of whatever login   *)
(* began last.  A browser has one session, which its cookie names; several *)
(* of its tabs may be under way at once.                                   *)
(***************************************************************************)
EXTENDS Integers, FiniteSets

CONSTANTS
    Browsers,
    Requests,      \* tabs: each has at most one request under way
    Owners,        \* which browsers the tabs may belong to, in [Requests -> Browsers]
    Asks,          \* what a tab asks for: a set of <<page, method>>
    Routes,        \* the configured routes, see RouteOf
    Granted,       \* the groups of each browser's user at the IdP
    NoPage,
    Stores,        \* where the sessions may be: in "memory", in "redis"
    MaxExpiries,   \* bound: tokens that expire
    MaxAuthFaults      \* bound: failed calls, lost sessions, restarts

Pages == UNION {rt.pages : rt \in Routes}
Methods == {a[2] : a \in UNION {Asks[r] : r \in Requests}} \union {"GET"}
Scopes == UNION {{ms[2] : ms \in rt.scopes} : rt \in Routes}

\* A session in which no groups were ever put.
NoGroups == {"nil"}

ASSUME AuthConstants ==
    /\ IsFiniteSet(Requests)
    /\ Owners \subseteq [Requests -> Browsers]
    /\ Granted \in [Browsers -> SUBSET Scopes]
    /\ NoPage \notin Pages /\ "nil" \notin Scopes
    /\ \A r \in Requests : \A a \in Asks[r] : a[1] \in Pages
    /\ Stores \subseteq {"memory", "redis"} /\ MaxExpiries \in Nat /\ MaxAuthFaults \in Nat

VARIABLES
    browser,   \* the browser of each tab, chosen at the start
    sess,      \* the store: per browser the token, the page to return to, the groups
    state,     \* oc.state, 0 when nothing has been drawn
    redrawn,   \* states of an earlier process that the generator will draw again
    req,       \* the request of each tab
    expiries, authFaults

authVars == <<browser, sess, state, redrawn, req, expiries, authFaults>>

\* Enough values to have one that nobody uses.
States == 0..(Cardinality(Requests) + 2)

NoSession == [info |-> "none", path |-> NoPage, groups |-> NoGroups]

NoRequest == [pc |-> "idle", page |-> NoPage, meth |-> "GET", held |-> 0, snap |-> NoSession]

AuthInit ==
    /\ browser \in Owners
    /\ sess = [b \in Browsers |-> NoSession]
    /\ state = 0 /\ redrawn = {}
    /\ req = [r \in Requests |-> NoRequest]
    /\ expiries = 0 /\ authFaults = 0

At(r, pc) == req[r].pc = pc
Go(r, pc) == req' = [req EXCEPT ![r].pc = pc]
\* The request ends and the browser shows the outcome.
End(r, pc) == req' = [req EXCEPT ![r] = IF pc = "served" THEN [@ EXCEPT !.pc = pc]
                                        ELSE [NoRequest EXCEPT !.pc = pc]]
AuthFault == authFaults < MaxAuthFaults /\ authFaults' = authFaults + 1

Over == {"idle", "served", "denied", "refused", "failed", "panic"}
Rest(r) == req[r].pc \in Over

-----------------------------------------------------------------------------
(* Routing and authorization.                                              *)

\* SetRoutes registers the routes by priority and the router takes the first one
\* whose prefix matches; routes of equal priority come in any order.
RouteOf(page) ==
    LET match == {rt \in Routes : page \in rt.pages}
    IN  {rt \in match : \A o \in match : rt.priority <= o.priority}

\* AuthZ_Handler: no scopes at all, a method that everybody may use, or a group of
\* the session that is listed for the method.  Without groups in the session the
\* handler dereferences nil.
AuthZ(rt, meth, groups) ==
    IF rt.scopes = {} \/ \E ms \in rt.scopes : ms[1] \in {meth, "*"} /\ ms[2] = "*" THEN "served"
    ELSE IF groups = NoGroups THEN "panic"
    ELSE IF \E ms \in rt.scopes : ms[1] \in {meth, "*"} /\ ms[2] \in groups THEN "served"
    ELSE "denied"

-----------------------------------------------------------------------------
(* AuthN_Handler.                                                          *)

Ask(r, page, meth) ==
    /\ Rest(r) /\ <<page, meth>> \in Asks[r]
    /\ req' = [req EXCEPT ![r] = [NoRequest EXCEPT !.pc = "sent", !.page = page, !.meth = meth]]
    /\ UNCHANGED <<browser, sess, state, redrawn, expiries, authFaults>>

\* An unprotected route goes to the proxy at once.
EnterOpen(r, rt) ==
    /\ At(r, "sent") /\ rt \in RouteOf(req[r].page) /\ ~rt.protected
    /\ End(r, "served")
    /\ UNCHANGED <<browser, sess, state, redrawn, expiries, authFaults>>

\* No token in the session: the handler notes the page in its copy.
EnterNew(r, rt) ==
    /\ At(r, "sent") /\ rt \in RouteOf(req[r].page) /\ rt.protected
    /\ sess[browser[r]].info = "none"
    /\ req' = [req EXCEPT ![r].pc = "keep", ![r].snap = [sess[browser[r]] EXCEPT !.path = req[r].page]]
    /\ UNCHANGED <<browser, sess, state, redrawn, expiries, authFaults>>

\* Mutant of EnterOld: the sign of the remaining time is mistaken.
EnterOldAny(r, rt) ==
    /\ At(r, "sent") /\ rt \in RouteOf(req[r].page) /\ rt.protected
    /\ sess[browser[r]].info # "none"
    /\ Go(r, "draw")
    /\ UNCHANGED <<browser, sess, state, redrawn, expiries, authFaults>>

\* The token has expired, or will in five seconds.  The page is not noted.
EnterOld(r, rt) ==
    /\ At(r, "sent") /\ rt \in RouteOf(req[r].page) /\ rt.protected
    /\ sess[browser[r]].info = "old"
    /\ Go(r, "draw")
    /\ UNCHANGED <<browser, sess, state, redrawn, expiries, authFaults>>

\* Authenticated: AuthZ_Handler works on the same copy of the session.
Enter(r, rt) ==
    /\ At(r, "sent") /\ rt \in RouteOf(req[r].page) /\ rt.protected
    /\ sess[browser[r]].info = "live"
    /\ End(r, AuthZ(rt, req[r].meth, sess[browser[r]].groups))
    /\ UNCHANGED <<browser, sess, state, redrawn, expiries, authFaults>>

\* Mutant of Keep: the browser is redirected and the session not saved.
KeepNothing(r) ==
    /\ At(r, "keep")
    /\ Go(r, "draw")
    /\ UNCHANGED <<browser, sess, state, redrawn, expiries, authFaults>>

\* session.Save writes the whole copy, over whatever a login has saved meanwhile.
Keep(r) ==
    /\ At(r, "keep")
    /\ sess' = [sess EXCEPT ![browser[r]] = req[r].snap]
    /\ req' = [req EXCEPT ![r].pc = "draw", ![r].snap = NoSession]
    /\ UNCHANGED <<browser, state, redrawn, expiries, authFaults>>

\* The store cannot be read or written: 500.
StoreFails(r) ==
    /\ req[r].pc \in {"sent", "keep", "store"} /\ AuthFault
    /\ End(r, "failed")
    /\ UNCHANGED <<browser, sess, state, redrawn, expiries>>

\* genState: a state that is not in use.  The generator is not seeded: after a
\* restart it also draws those again that the process before has handed out.
Draw(r, s) ==
    /\ At(r, "draw")
    /\ LET used == {0, state} \union {req[x].held : x \in Requests} \union redrawn
       IN  s \in redrawn \/ (s \notin used /\ \A x \in States \ used : s <= x)
    /\ state' = s /\ redrawn' = redrawn \ {s}
    /\ Go(r, "url")
    /\ UNCHANGED <<browser, sess, expiries, authFaults>>

\* oc.state is read again for the URL: it may be that of another login by now.
Redirect(r) ==
    /\ At(r, "url")
    /\ req' = [req EXCEPT ![r].pc = "idp", ![r].held = state]
    /\ UNCHANGED <<browser, sess, state, redrawn, expiries, authFaults>>

-----------------------------------------------------------------------------
(* HandleCallback.                                                         *)

\* The user signs in and the IdP sends the browser back.
SignIn(r) ==
    /\ At(r, "idp")
    /\ Go(r, "callback")
    /\ UNCHANGED <<browser, sess, state, redrawn, expiries, authFaults>>

\* Or leaves.
LeaveIdP(r) ==
    /\ At(r, "idp")
    /\ req' = [req EXCEPT ![r] = NoRequest]
    /\ UNCHANGED <<browser, sess, state, redrawn, expiries, authFaults>>

\* Mutant of Callback: the comparison is inverted.
CallbackInverted(r) ==
    /\ At(r, "callback")
    /\ IF req[r].held # state
       THEN req' = [req EXCEPT ![r].pc = "exchange", ![r].held = 0]
       ELSE End(r, "refused")
    /\ UNCHANGED <<browser, sess, state, redrawn, expiries, authFaults>>

\* oc.state is that of the login that began last: any other is refused (400).
Callback(r) ==
    /\ At(r, "callback")
    /\ IF req[r].held = state
       THEN req' = [req EXCEPT ![r].pc = "exchange", ![r].held = 0]
       ELSE End(r, "refused")
    /\ UNCHANGED <<browser, sess, state, redrawn, expiries, authFaults>>

\* The code is exchanged, the token verified; then the session is read.
Exchange(r) ==
    /\ At(r, "exchange")
    /\ req' = [req EXCEPT ![r].pc = "groups", ![r].snap = [sess[browser[r]] EXCEPT !.info = "live"]]
    /\ UNCHANGED <<browser, sess, state, redrawn, expiries, authFaults>>

\* An answer without expires_in: the token has no Expiry, and counts as old from the
\* start.  (From an IdP that never sends it the browser would come back for ever.)
ExchangeUndated(r) ==
    /\ At(r, "exchange") /\ AuthFault
    /\ req' = [req EXCEPT ![r].pc = "groups", ![r].snap = [sess[browser[r]] EXCEPT !.info = "old"]]
    /\ UNCHANGED <<browser, sess, state, redrawn, expiries>>

\* An error of that read is ignored: the login goes on with an empty session.
ExchangeBlind(r) ==
    /\ At(r, "exchange") /\ AuthFault
    /\ req' = [req EXCEPT ![r].pc = "groups", ![r].snap = [NoSession EXCEPT !.info = "live"]]
    /\ UNCHANGED <<browser, sess, state, redrawn, expiries>>

\* Exchange, id_token, Verify or Claims fails: 500.
ExchangeFails(r) ==
    /\ At(r, "exchange") /\ AuthFault
    /\ End(r, "failed")
    /\ UNCHANGED <<browser, sess, state, redrawn, expiries>>

\* setUserGroups asks the IdP for the user's groups.
SetUserGroups(r) ==
    /\ At(r, "groups")
    /\ req' = [req EXCEPT ![r].pc = "store", ![r].snap.groups = Granted[browser[r]]]
    /\ UNCHANGED <<browser, sess, state, redrawn, expiries, authFaults>>

\* It is not reached, and the groups are as before, or answers with an error,
\* which is read as a user without groups.
SetUserGroupsFails(r) ==
    /\ At(r, "groups") /\ AuthFault
    /\ \E g \in {req[r].snap.groups, {}} :
          req' = [req EXCEPT ![r].pc = "store", ![r].snap.groups = g]
    /\ UNCHANGED <<browser, sess, state, redrawn, expiries>>

\* The session is saved and the browser sent to the page it notes, with GET (303).
\* A session without a page makes the type assertion panic.
Finish(r) ==
    /\ At(r, "store")
    /\ sess' = [sess EXCEPT ![browser[r]] = req[r].snap]
    /\ IF req[r].snap.path = NoPage
       THEN End(r, "panic")
       ELSE req' = [req EXCEPT ![r] = [NoRequest EXCEPT !.pc = "sent", !.page = req[r].snap.path]]
    /\ UNCHANGED <<browser, state, redrawn, expiries, authFaults>>

-----------------------------------------------------------------------------
(* Time and failures.                                                      *)

Expire(b) ==
    /\ sess[b].info = "live" /\ expiries < MaxExpiries
    /\ sess' = [sess EXCEPT ![b].info = "old"]
    /\ expiries' = expiries + 1
    /\ UNCHANGED <<browser, state, redrawn, req, authFaults>>

\* The store drops the session: max_age_seconds have passed, or Redis was emptied.
Forget(b) ==
    /\ sess[b] # NoSession /\ AuthFault
    /\ sess' = [sess EXCEPT ![b] = NoSession]
    /\ UNCHANGED <<browser, state, redrawn, req, expiries>>

\* The process starts anew: requests in it fail, those at the IdP do not notice.
\* Sessions in memory are gone.
Restart(store) ==
    /\ AuthFault
    /\ sess' = IF store = "redis" THEN sess ELSE [b \in Browsers |-> NoSession]
    /\ state' = 0
    /\ redrawn' = {req[r].held : r \in {x \in Requests : req[x].pc \in {"idp", "callback"}}}
    /\ req' = [r \in Requests |->
                  IF Rest(r) \/ req[r].pc \in {"idp", "callback"} THEN req[r]
                  ELSE [NoRequest EXCEPT !.pc = "failed"]]
    /\ UNCHANGED <<browser, expiries>>

AuthNext ==
    \/ \E r \in Requests, p \in Pages, m \in Methods : Ask(r, p, m)
    \/ \E r \in Requests, rt \in Routes : EnterOpen(r, rt)
    \/ \E r \in Requests, rt \in Routes : EnterNew(r, rt)
    \/ \E r \in Requests, rt \in Routes : EnterOld(r, rt)
    \/ \E r \in Requests, rt \in Routes : Enter(r, rt)
    \/ \E r \in Requests : Keep(r)
    \/ \E r \in Requests : StoreFails(r)
    \/ \E r \in Requests, s \in States : Draw(r, s)
    \/ \E r \in Requests : Redirect(r)
    \/ \E r \in Requests : SignIn(r)
    \/ \E r \in Requests : LeaveIdP(r)
    \/ \E r \in Requests : Callback(r)
    \/ \E r \in Requests : Exchange(r)
    \/ \E r \in Requests : ExchangeUndated(r)
    \/ \E r \in Requests : ExchangeBlind(r)
    \/ \E r \in Requests : ExchangeFails(r)
    \/ \E r \in Requests : SetUserGroups(r)
    \/ \E r \in Requests : SetUserGroupsFails(r)
    \/ \E r \in Requests : Finish(r)
    \/ \E b \in Browsers : Expire(b)
    \/ \E b \in Browsers : Forget(b)
    \/ \E store \in Stores : Restart(store)

\* The handler of a request runs on, and a user at the IdP signs in (or leaves).
Handle(r) ==
    \/ \E rt \in Routes : EnterOpen(r, rt) \/ EnterNew(r, rt) \/ EnterOld(r, rt) \/ Enter(r, rt)
    \/ Keep(r) \/ (\E s \in States : Draw(r, s)) \/ Redirect(r) \/ SignIn(r) \/ Callback(r)
    \/ Exchange(r) \/ SetUserGroups(r) \/ Finish(r)

AuthSpec == AuthInit /\ [][AuthNext]_authVars /\ \A r \in Requests : WF_authVars(Handle(r))

-----------------------------------------------------------------------------
(* Properties.                                                             *)

SessionType == [info : {"none", "live", "old"}, path : Pages \union {NoPage},
                groups : (SUBSET Scopes) \union {NoGroups}]

\* Type invariant.
AuthTypeOK ==
    /\ browser \in Owners
    /\ sess \in [Browsers -> SessionType]
    /\ state \in States /\ redrawn \subseteq States
    /\ req \in [Requests ->
          [pc : Over \union {"sent", "keep", "draw", "url", "idp", "callback", "exchange", "groups", "store"},
           page : Pages \union {NoPage}, meth : Methods, held : States, snap : SessionType]]
    /\ expiries \in 0..MaxExpiries /\ authFaults \in 0..MaxAuthFaults

\* A page is served only to a browser whose user has a group for it, whichever way
\* the tabs of the browser save their copies of the session over each other.
OnlyGranted ==
    \A r \in Requests : At(r, "served") =>
        \E rt \in RouteOf(req[r].page) : ~rt.protected \/ AuthZ(rt, req[r].meth, Granted[browser[r]]) = "served"

\* Without a failure no handler panics: a session with a token has its groups and
\* the page to return to, also when other tabs save the session at the same time.
NoPanic == authFaults = 0 => \A r \in Requests : ~At(r, "panic")

\* The three together, and that a session that holds groups holds a token.
AuthInv ==
    /\ AuthTypeOK /\ OnlyGranted /\ NoPanic
    /\ \A b \in Browsers : sess[b].groups # NoGroups => sess[b].info # "none"

\* No redirect loop: when the other tabs and users come to rest, a request is
\* answered.  (Two that never rest can send each other to the IdP for ever.)
NoLoginLoop ==
    \A r \in Requests : []<>(\E o \in Requests \ {r} : ~Rest(o)) \/ []<>Rest(r)

\* The login that began last goes through: the browser gets its session, unless a
\* further login begins, the user leaves, or a call or the process fails.
LoginGoesThrough ==
    \A r \in Requests :
        At(r, "idp") /\ req[r].held = state
            ~> \/ sess[browser[r]].info = "live"
               \/ state # req[r].held /\ req[r].held # 0
               \/ req[r].pc \in {"idle", "failed"}
=============================================================================
