----------------------------- MODULE WebSession -----------------------------
(***************************************************************************)
(* Accounts and sessions: the first administrator's set-up and the sign-in on   *)
(* the server, and the tabs of one browser, each with its session store, its    *)
(* cached access token and its requests in flight.  The browser's local storage *)
(* is shared by the tabs.                                                    *)
(*                                                                         *)
(* A response and everything JavaScript does with it up to the next await of     *)
(* the network is one action.                                                *)
(***************************************************************************)
EXTENDS Naturals

CONSTANTS
    Tabs,        \* tabs of the browser
    Emails,      \* accounts people may create, as normalizeEmail returns them
    Tokens,      \* bound: access tokens the server can ever sign
    MaxErrors    \* bound: requests the network loses

ASSUME WebSessionAssumption ==
    /\ (Emails \cup Tokens) \cap {"none", "unread"} = {}
    /\ MaxErrors \in Nat

VARIABLES
    users,        \* rows of the users table, all of them administrators
    registering,  \* create-admin requests past both checks, hashing a password
    owner,        \* owner[k]: whose token k is
    expired,      \* tokens past their expiry
    stored,       \* the token in local storage
    tab,          \* tab[t]: session store, cached token, form and boot in progress
    asked,        \* asked[t]: tokens that t's unanswered data requests carry
    errors

serverVars == <<users, registering, owner, expired>>
vars == <<serverVars, stored, tab, asked, errors>>

Closed == [status |-> "closed", user |-> "none", token |-> "unread",
           form |-> "none", email |-> "none", boot |-> "none"]

(* Requests of a tab that was closed or reloaded are answered to nobody.        *)
Loading == [Closed EXCEPT !.status = "loading", !.boot = "status"]

Issued == {k \in Tokens : owner[k] # "none"}

(* Any token not signed before; which one tells nothing apart.                  *)
FreshToken == CHOOSE k \in Tokens : k \notin Issued

(* JwtAuthGuard accepts a token, and its account still exists: no operation      *)
(* removes one.                                                              *)
Accepted(k) == k \in Issued \ expired

WebSessionTypeOK ==
    /\ users \subseteq Emails
    /\ registering \subseteq [tab : Tabs, email : Emails]
    /\ owner \in [Tokens -> Emails \cup {"none"}]
    /\ expired \subseteq Issued
    /\ stored \in Issued \cup {"none"}
    /\ tab \in [Tabs ->
         [status : {"closed", "loading", "unauthenticated", "authenticated", "setup-required"},
          user : Emails \cup {"none"}, token : Tokens \cup {"none", "unread"},
          form : {"none", "create", "login"}, email : Emails \cup {"none"},
          boot : {"none", "status", "me"}]]
    /\ asked \in [Tabs -> SUBSET Issued]
    /\ errors \in 0..MaxErrors

WebSessionInit ==
    /\ users = {} /\ registering = {}
    /\ owner = [k \in Tokens |-> "none"] /\ expired = {}
    /\ stored = "none"
    /\ tab = [t \in Tabs |-> Closed] /\ asked = [t \in Tabs |-> {}]
    /\ errors = 0

---------------------------------------------------------------------------
(* The token store of a tab.                                                 *)

(* Mutant: no in-memory mirror, every read goes to local storage.              *)
CurrentStored(t) == stored

(* getToken reads local storage once and keeps what it found.                  *)
Current(t) == IF tab[t].token = "unread" THEN stored ELSE tab[t].token

(* setToken, then the store: the shown user is the one the login returned.       *)
SignedIn(t, k, email) ==
    /\ owner' = [owner EXCEPT ![k] = email]
    /\ stored' = k
    /\ tab' = [tab EXCEPT ![t] = [Closed EXCEPT !.status = "authenticated",
                                               !.user = email, !.token = k]]

(* Mutant: clearToken tells nobody, the store keeps its status.                 *)
DropsSilently(t) ==
    /\ stored' = "none"
    /\ tab' = [tab EXCEPT ![t].token = "none"]

(* clearToken; its listener takes a signed-in store to the login screen.         *)
Drops(t) ==
    /\ stored' = "none"
    /\ tab' = [tab EXCEPT ![t] =
                 IF @.status = "authenticated"
                 THEN [Closed EXCEPT !.status = "unauthenticated", !.token = "none"]
                 ELSE [@ EXCEPT !.token = "none"]]

---------------------------------------------------------------------------
(* Opening or reloading a tab: AuthGate's bootstrap.                          *)

Open(t) ==
    /\ tab' = [tab EXCEPT ![t] = Loading] /\ asked' = [asked EXCEPT ![t] = {}]
    /\ UNCHANGED <<serverVars, stored, errors>>

Lost == errors < MaxErrors /\ errors' = errors + 1

(* GET /setup/status, sent without a token; then GET /auth/me if there is one.   *)
BootStatus(t) ==
    /\ tab[t].boot = "status"
    /\ \/ /\ users = {} /\ UNCHANGED errors
          /\ tab' = [tab EXCEPT ![t] = [Closed EXCEPT !.status = "setup-required"]]
       \/ /\ users # {} /\ stored = "none" /\ UNCHANGED errors
          /\ tab' = [tab EXCEPT ![t] = [Closed EXCEPT !.status = "unauthenticated",
                                                     !.token = "none"]]
       \/ /\ users # {} /\ stored # "none" /\ UNCHANGED errors
          /\ tab' = [tab EXCEPT ![t].boot = "me", ![t].token = stored]
       \/ Lost /\ tab' = [tab EXCEPT ![t] = [Closed EXCEPT !.status = "unauthenticated"]]
    /\ UNCHANGED <<serverVars, stored, asked>>

(* A rejected token is dropped; a lost request leaves it, and the login screen.   *)
BootMe(t) ==
    /\ tab[t].boot = "me"
    /\ LET out == [Closed EXCEPT !.status = "unauthenticated", !.token = tab[t].token]
       IN  \/ /\ Accepted(tab[t].token) /\ UNCHANGED <<stored, errors>>
              /\ tab' = [tab EXCEPT ![t] = [out EXCEPT !.status = "authenticated",
                                                      !.user = owner[tab[t].token]]]
           \/ /\ ~Accepted(tab[t].token) /\ stored' = "none" /\ UNCHANGED errors
              /\ tab' = [tab EXCEPT ![t] = [out EXCEPT !.token = "none"]]
           \/ Lost /\ tab' = [tab EXCEPT ![t] = out] /\ UNCHANGED stored
    /\ UNCHANGED <<serverVars, asked>>

---------------------------------------------------------------------------
(* First-run set-up and sign-in.                                             *)

Submits(t, form, email) ==
    tab' = [tab EXCEPT ![t].form = form, ![t].email = email]

(* SetupPage: its form, disabled while it is being submitted.                    *)
SetupForm(t) == tab[t].status = "setup-required" /\ tab[t].form = "none"

(* The set-up screen posts create-admin; the server counts the users and looks    *)
(* the address up, and starts to hash.  Refused, the screen shows the error.       *)
CreateAdmin(t, email) ==
    /\ SetupForm(t)
    /\ \/ /\ users = {} /\ Submits(t, "create", email)
          /\ registering' = registering \cup {[tab |-> t, email |-> email]}
       \/ users # {} /\ UNCHANGED <<tab, registering>>
    /\ UNCHANGED <<users, owner, expired, stored, asked, errors>>

(* The row is written, unless the unique address is taken; the screen that waits   *)
(* goes on to sign in, or shows the conflict.  The answer may be lost.             *)
CreateUser(r) ==
    /\ r \in registering /\ registering' = registering \ {r}
    /\ users' = users \cup {r.email}
    /\ LET waits == tab[r.tab].form = "create" /\ tab[r.tab].email = r.email
           next(form) == tab' = [tab EXCEPT ![r.tab].form = form,
                                            ![r.tab].email = IF form = "none" THEN form ELSE @]
       IN  \/ ~waits /\ UNCHANGED <<tab, errors>>
           \/ waits /\ next(IF r.email \in users THEN "none" ELSE "login") /\ UNCHANGED errors
           \/ waits /\ Lost /\ next("none")
    /\ UNCHANGED <<owner, expired, stored, asked>>

(* LoginPage: its form, disabled while it is being submitted.                     *)
LoginForm(t) == tab[t].status = "unauthenticated" /\ tab[t].form = "none"

SignIn(t, email) ==
    /\ LoginForm(t) /\ Submits(t, "login", email)
    /\ UNCHANGED <<serverVars, stored, asked, errors>>

(* validateCredentials and the token; or the form shows why not.                 *)
Login(t) ==
    /\ tab[t].form = "login"
    /\ \/ /\ tab[t].email \in users
          /\ Issued # Tokens /\ SignedIn(t, FreshToken, tab[t].email)
          /\ UNCHANGED errors
       \/ /\ tab' = [tab EXCEPT ![t].form = "none", ![t].email = "none"]
          /\ UNCHANGED <<owner, stored>>
          /\ Lost \/ UNCHANGED errors
    /\ UNCHANGED <<users, registering, expired, asked>>

(* RequireAuth: the pages are behind a session.                                 *)
PagesShown(t) == tab[t].status = "authenticated"

SignOut(t) ==
    /\ PagesShown(t) /\ Drops(t)
    /\ UNCHANGED <<serverVars, asked, errors>>

(* Mutant: a token that was never signed runs out.                             *)
ExpireUnsigned(k) ==
    /\ k \in Tokens \ expired /\ expired' = expired \cup {k}
    /\ UNCHANGED <<users, registering, owner, stored, tab, asked, errors>>

(* A token's time runs out.                                                   *)
Expire(k) ==
    /\ k \in Issued \ expired /\ expired' = expired \cup {k}
    /\ UNCHANGED <<users, registering, owner, stored, tab, asked, errors>>

---------------------------------------------------------------------------
(* Data requests: the pages poll while they are shown.                        *)

Ask(t) ==
    /\ PagesShown(t) /\ Current(t) \in Tokens /\ Current(t) \notin asked[t]
    /\ asked' = [asked EXCEPT ![t] = @ \cup {Current(t)}]
    /\ UNCHANGED <<serverVars, stored, tab, errors>>

(* The data arrives, or the request was lost.                                 *)
Answered(t, k) ==
    /\ k \in asked[t] /\ asked' = [asked EXCEPT ![t] = @ \ {k}]
    /\ \/ Accepted(k) /\ UNCHANGED errors
       \/ Lost
    /\ UNCHANGED <<serverVars, stored, tab>>

(* A 401 to a request that carried a token drops the token the tab has now.       *)
Rejected(t, k) ==
    /\ k \in asked[t] /\ ~Accepted(k)
    /\ asked' = [asked EXCEPT ![t] = @ \ {k}]
    /\ Drops(t)
    /\ UNCHANGED <<serverVars, errors>>

---------------------------------------------------------------------------
TabStep(t) ==
    \/ Open(t) \/ BootStatus(t) \/ BootMe(t) \/ Login(t) \/ SignOut(t) \/ Ask(t)
    \/ \E email \in Emails : CreateAdmin(t, email) \/ SignIn(t, email)
    \/ \E k \in Tokens : Answered(t, k) \/ Rejected(t, k)

WebSessionNext ==
    \/ \E t \in Tabs : TabStep(t)
    \/ \E r \in registering : CreateUser(r)
    \/ \E k \in Tokens : Expire(k)

WebSessionSpec == WebSessionInit /\ [][WebSessionNext]_vars

(* Pages poll, responses come, and the server finishes what it began.  People     *)
(* need do nothing, but do not reload a tab for ever before it has started.       *)
WebSessionFairSpec ==
    /\ WebSessionSpec
    /\ \A t \in Tabs :
         /\ WF_vars(BootStatus(t)) /\ SF_vars(BootMe(t)) /\ WF_vars(Ask(t))
         /\ WF_vars(\E k \in Tokens : Answered(t, k) \/ Rejected(t, k))

---------------------------------------------------------------------------
(* Properties.                                                              *)

(* A tab shows the account its requests act for, whoever signs in or out in the     *)
(* other tabs of the browser; a signed-in tab always has a token to send.          *)
ShownUserActs ==
    \A t \in Tabs : tab[t].status = "authenticated" =>
        Current(t) \in Issued /\ owner[Current(t)] = tab[t].user

(* A session whose token the server no longer accepts ends: the tab is on the       *)
(* login screen without anybody touching it (auth.ts: "so an expired session drops   *)
(* to the login screen immediately, rather than on the next manual navigation").    *)
ExpiredSessionEnds ==
    \A t \in Tabs :
        (tab[t].status = "authenticated" /\ Current(t) \in expired)
            ~> (tab[t].status # "authenticated" \/ Accepted(Current(t)))

(* api.ts: "A rejected token is dead weight: drop it ... instead of retrying with a  *)
(* credential the server refuses": the token a tab gives up without a sign-out is    *)
(* one the server refuses.                                                   *)
DropsOnlyRejected ==
    [][\A t \in Tabs :
         tab[t].status = "authenticated" /\ tab'[t].status = "unauthenticated"
             /\ asked'[t] # asked[t]
             => ~Accepted(Current(t))]_vars

(* SetupPage.tsx: "the endpoint behind it refuses to run once any user exists, so a  *)
(* stale tab cannot create a second admin".                                    *)
OneFirstAdmin == \A a, b \in users : a = b
===========================================================================
