--------------------------- MODULE WebSessionProofs ---------------------------
(***************************************************************************)
(* Proofs about WebSession, for any number of tabs, accounts, tokens and lost   *)
(* requests: its type invariant, and that a tab acts for the account it shows.   *)
(*                                                                         *)
(* Neither is inductive alone.  A signed-in tab that had not read local storage  *)
(* would act for whatever another tab puts there, so SignedInTabs adds that it   *)
(* has, and that what it read is a token of its user; and a data request          *)
(* carries a signed token only because of that.                                *)
(***************************************************************************)
EXTENDS WebSession, TLAPS

Statuses == {"closed", "loading", "unauthenticated", "authenticated", "setup-required"}

TabStates ==
    [status : Statuses, user : Emails \cup {"none"}, token : Tokens \cup {"none", "unread"},
     form : {"none", "create", "login"}, email : Emails \cup {"none"},
     boot : {"none", "status", "me"}]

(* A signed-in tab has started, and read its token, one of the user it shows.   *)
SignedInTabs ==
    \A t \in Tabs : tab[t].status = "authenticated" =>
        /\ tab[t].boot = "none"
        /\ tab[t].token \in Issued /\ owner[tab[t].token] = tab[t].user

SessionInv == WebSessionTypeOK /\ SignedInTabs

(* The type invariant, with the parts the proofs speak of named.                *)
LEMMA TypeParts ==
    ASSUME WebSessionTypeOK
    PROVE  /\ tab \in [Tabs -> TabStates]
           /\ owner \in [Tokens -> Emails \cup {"none"}]
           /\ Issued \subseteq Tokens
           /\ stored \in Issued \cup {"none"}
           /\ \A t \in Tabs : asked[t] \subseteq Issued
<1>1. tab \in [Tabs -> TabStates] BY DEF WebSessionTypeOK, TabStates, Statuses
<1>2. Issued \subseteq Tokens BY DEF Issued
<1> QED BY <1>1, <1>2 DEF WebSessionTypeOK

(* Names of nothing are no names of accounts or tokens.                        *)
LEMMA NoneIsNoName == "none" \notin Emails \cup Tokens /\ "unread" \notin Emails \cup Tokens
BY WebSessionAssumption DEF WebSessionAssumption

(* The token a sign-in is given had not been signed.                           *)
LEMMA FreshTokenIsFresh ==
    ASSUME WebSessionTypeOK, Issued # Tokens
    PROVE  FreshToken \in Tokens \ Issued
<1>1. \E k \in Tokens : k \notin Issued BY TypeParts
<1> QED BY <1>1 DEF FreshToken

(* A property of the token, of its owner and of what is kept when a token is      *)
(* signed: those signed before keep their owners.                             *)
LEMMA SigningKeepsOwners ==
    ASSUME WebSessionTypeOK, NEW k \in Tokens \ Issued, NEW email \in Emails,
           owner' = [owner EXCEPT ![k] = email]
    PROVE  /\ owner' \in [Tokens -> Emails \cup {"none"}]
           /\ Issued' = Issued \cup {k}
           /\ \A j \in Issued : owner'[j] = owner[j]
           /\ owner'[k] = email
<1>1. owner \in [Tokens -> Emails \cup {"none"}] BY TypeParts
<1>2. email # "none" BY NoneIsNoName
<1>3. \A j \in Tokens : owner'[j] = IF j = k THEN email ELSE owner[j] BY <1>1
<1> QED BY <1>1, <1>2, <1>3 DEF Issued

LEMMA InitSession == WebSessionInit => SessionInv
<1> SUFFICES ASSUME WebSessionInit PROVE SessionInv OBVIOUS
<1>1. Issued = {} BY DEF WebSessionInit, Issued
<1>2. WebSessionTypeOK
  BY <1>1, WebSessionAssumption
  DEF WebSessionInit, WebSessionTypeOK, WebSessionAssumption, Closed
<1>3. SignedInTabs BY DEF WebSessionInit, SignedInTabs, Closed
<1> QED BY <1>2, <1>3 DEF SessionInv

---------------------------------------------------------------------------
(* A step that rewrites one tab and signs nothing.                            *)
LEMMA OneTabSteps ==
    ASSUME SessionInv, NEW t \in Tabs, NEW s \in TabStates,
           tab' = [tab EXCEPT ![t] = s], owner' = owner,
           s.status = "authenticated" =>
               s.boot = "none" /\ s.token \in Issued /\ owner[s.token] = s.user
    PROVE  tab' \in [Tabs -> TabStates] /\ SignedInTabs'
<1>1. tab \in [Tabs -> TabStates] BY TypeParts DEF SessionInv
<1>2. \A u \in Tabs : tab'[u] = IF u = t THEN s ELSE tab[u] BY <1>1
<1>3. Issued' = Issued BY DEF Issued
<1>4. SignedInTabs' BY <1>2, <1>3 DEF SessionInv, SignedInTabs
<1> QED BY <1>1, <1>4

(* A step that signs nothing and leaves the tabs alone.                        *)
LEMMA NoTabSteps ==
    ASSUME SessionInv, tab' = tab, owner' = owner
    PROVE  tab' \in [Tabs -> TabStates] /\ SignedInTabs'
<1>1. Issued' = Issued BY DEF Issued
<1> QED BY <1>1, TypeParts DEF SessionInv, SignedInTabs

(* What a signing-free step must still show to keep the invariant.              *)
LEMMA Assembles ==
    ASSUME SessionInv, owner' = owner,
           tab' \in [Tabs -> TabStates], SignedInTabs',
           users' \subseteq Emails, registering' \subseteq [tab : Tabs, email : Emails],
           expired' \subseteq Issued, stored' \in Issued \cup {"none"},
           asked' \in [Tabs -> SUBSET Issued], errors' \in 0..MaxErrors
    PROVE  SessionInv'
<1>1. Issued' = Issued BY DEF Issued
<1>2. owner' \in [Tokens -> Emails \cup {"none"}] BY TypeParts DEF SessionInv
<1> QED BY <1>1, <1>2 DEF SessionInv, WebSessionTypeOK, TabStates, Statuses

(* The states a tab may be put in.                                            *)
LEMMA TabForms ==
    ASSUME NEW st \in Statuses, NEW email \in Emails \cup {"none"},
           NEW k \in Tokens \cup {"none", "unread"}
    PROVE  /\ Closed \in TabStates /\ Loading \in TabStates
           /\ [Closed EXCEPT !.status = st, !.token = k] \in TabStates
           /\ [Closed EXCEPT !.status = st] \in TabStates
           /\ [Closed EXCEPT !.status = st, !.user = email, !.token = k] \in TabStates
BY DEF TabStates, Statuses, Closed, Loading

(* Dropping a token ends the session of its tab.                              *)
LEMMA DropsSession ==
    ASSUME SessionInv, NEW t \in Tabs, Drops(t), owner' = owner
    PROVE  /\ tab' \in [Tabs -> TabStates] /\ SignedInTabs'
           /\ stored' = "none"
<1> DEFINE out == [Closed EXCEPT !.status = "unauthenticated", !.token = "none"]
           kept == [tab[t] EXCEPT !.token = "none"]
<1>1. tab[t] \in TabStates BY TypeParts DEF SessionInv
<1>2. CASE tab[t].status = "authenticated"
  <2>1. out \in TabStates BY TabForms DEF Statuses
  <2>2. out.status # "authenticated" BY DEF Closed
  <2>3. tab' = [tab EXCEPT ![t] = out] BY <1>2 DEF Drops
  <2> QED BY <2>1, <2>2, <2>3, OneTabSteps DEF Drops
<1>3. CASE tab[t].status # "authenticated"
  <2>1. kept \in TabStates /\ kept.status = tab[t].status BY <1>1 DEF TabStates
  <2>2. tab' = [tab EXCEPT ![t] = kept] BY <1>3 DEF Drops
  <2> QED BY <1>3, <2>1, <2>2, OneTabSteps DEF Drops
<1> QED BY <1>2, <1>3

(* The types of what a step leaves alone, in the form Assembles asks for.        *)
LEMMA OtherParts ==
    ASSUME SessionInv
    PROVE  /\ users \subseteq Emails /\ registering \subseteq [tab : Tabs, email : Emails]
           /\ expired \subseteq Issued /\ stored \in Issued \cup {"none"}
           /\ asked \in [Tabs -> SUBSET Issued] /\ errors \in 0..MaxErrors
BY DEF SessionInv, WebSessionTypeOK

LEMMA LostCounts ==
    ASSUME SessionInv, Lost
    PROVE  errors' \in 0..MaxErrors
BY WebSessionAssumption DEF SessionInv, WebSessionTypeOK, Lost, WebSessionAssumption

---------------------------------------------------------------------------
(* One lemma for each operation of a tab.                                     *)

LEMMA StepOpen ==
    ASSUME SessionInv, NEW t \in Tabs, Open(t) PROVE SessionInv'
<1>1. Loading \in TabStates /\ Loading.status # "authenticated"
  BY TabForms DEF Loading, Closed, Statuses
<1>2. tab' \in [Tabs -> TabStates] /\ SignedInTabs' BY <1>1, OneTabSteps DEF Open, serverVars
<1>3. asked' \in [Tabs -> SUBSET Issued] BY OtherParts DEF Open
<1> QED BY <1>2, <1>3, OtherParts, Assembles DEF Open, serverVars

LEMMA StepBootStatus ==
    ASSUME SessionInv, NEW t \in Tabs, BootStatus(t) PROVE SessionInv'
<1> DEFINE setup == [Closed EXCEPT !.status = "setup-required"]
           login == [Closed EXCEPT !.status = "unauthenticated", !.token = "none"]
           asks  == [tab[t] EXCEPT !.boot = "me", !.token = stored]
           lost  == [Closed EXCEPT !.status = "unauthenticated"]
<1>1. setup \in TabStates /\ login \in TabStates /\ lost \in TabStates
  BY TabForms DEF Statuses
<1>2. setup.status # "authenticated" /\ login.status # "authenticated"
        /\ lost.status # "authenticated"
  BY DEF Closed
<1>3. stored \in Tokens \cup {"none"} BY OtherParts, TypeParts DEF SessionInv
<1>4. tab[t] \in TabStates BY TypeParts DEF SessionInv
<1>5. asks \in TabStates BY <1>3, <1>4 DEF TabStates
<1>6. asks.status = tab[t].status BY <1>4 DEF TabStates
<1>7. errors' \in 0..MaxErrors BY OtherParts, LostCounts DEF BootStatus
<1>8. tab[t].status # "authenticated" BY DEF BootStatus, SessionInv, SignedInTabs
<1>9. tab' \in {[tab EXCEPT ![t] = setup], [tab EXCEPT ![t] = login],
                [tab EXCEPT ![t] = asks], [tab EXCEPT ![t] = lost]}
  BY DEF BootStatus
<1>10. tab' \in [Tabs -> TabStates] /\ SignedInTabs'
  BY <1>1, <1>2, <1>5, <1>6, <1>8, <1>9, OneTabSteps DEF BootStatus, serverVars
<1> QED BY <1>7, <1>10, OtherParts, Assembles DEF BootStatus, serverVars

LEMMA StepBootMe ==
    ASSUME SessionInv, NEW t \in Tabs, BootMe(t) PROVE SessionInv'
<1> DEFINE out  == [Closed EXCEPT !.status = "unauthenticated", !.token = tab[t].token]
           in   == [out EXCEPT !.status = "authenticated", !.user = owner[tab[t].token]]
           drop == [out EXCEPT !.token = "none"]
<1>1. tab[t] \in TabStates BY TypeParts DEF SessionInv
<1>2. tab[t].token \in Tokens \cup {"none", "unread"} BY <1>1 DEF TabStates
<1>3. out \in TabStates /\ out.status = "unauthenticated"
  BY <1>2, TabForms DEF Statuses, Closed
<1>4. drop \in TabStates /\ drop.status = "unauthenticated" BY <1>3 DEF TabStates
<1>5. errors' \in 0..MaxErrors BY OtherParts, LostCounts DEF BootMe
<1>6. CASE Accepted(tab[t].token) /\ tab' = [tab EXCEPT ![t] = in] /\ stored' = stored
  <2>1. tab[t].token \in Issued BY <1>6 DEF Accepted
  <2>2. owner[tab[t].token] \in Emails \cup {"none"} BY <2>1, TypeParts DEF SessionInv
  <2>3. in \in TabStates BY <1>3, <2>2 DEF TabStates, Statuses
  <2>4. in.boot = "none" /\ in.token = tab[t].token /\ in.user = owner[tab[t].token]
    BY DEF Closed
  <2>5. tab' \in [Tabs -> TabStates] /\ SignedInTabs'
    BY <1>6, <2>1, <2>3, <2>4, OneTabSteps DEF BootMe, serverVars
  <2> QED BY <1>5, <1>6, <2>5, OtherParts, Assembles DEF BootMe, serverVars
<1>7. CASE tab' \in {[tab EXCEPT ![t] = out], [tab EXCEPT ![t] = drop]}
             /\ stored' \in {stored, "none"}
  <2>1. tab' \in [Tabs -> TabStates] /\ SignedInTabs'
    BY <1>3, <1>4, <1>7, OneTabSteps DEF BootMe, serverVars
  <2> QED BY <1>5, <1>7, <2>1, OtherParts, Assembles DEF BootMe, serverVars
<1> QED BY <1>6, <1>7 DEF BootMe

(* Forms of a tab: what they change is no part of the session it shows.         *)
LEMMA FormSteps ==
    ASSUME SessionInv, NEW t \in Tabs, NEW form \in {"none", "create", "login"},
           NEW email \in Emails \cup {"none"}, owner' = owner,
           tab' = [tab EXCEPT ![t].form = form, ![t].email = email]
    PROVE  tab' \in [Tabs -> TabStates] /\ SignedInTabs'
<1> DEFINE s == [tab[t] EXCEPT !.form = form, !.email = email]
<1>1. tab[t] \in TabStates BY TypeParts DEF SessionInv
<1>2. s \in TabStates BY <1>1 DEF TabStates
<1>3. /\ s.status = tab[t].status /\ s.boot = tab[t].boot
      /\ s.token = tab[t].token /\ s.user = tab[t].user
  BY <1>1 DEF TabStates
<1>4. s.status = "authenticated" =>
          s.boot = "none" /\ s.token \in Issued /\ owner[s.token] = s.user
  BY <1>3 DEF SessionInv, SignedInTabs
<1>5. tab' = [tab EXCEPT ![t] = s] OBVIOUS
<1> HIDE DEF s
<1> QED BY <1>2, <1>4, <1>5, OneTabSteps

LEMMA StepCreateAdmin ==
    ASSUME SessionInv, NEW t \in Tabs, NEW email \in Emails, CreateAdmin(t, email)
    PROVE  SessionInv'
<1>1. registering' \subseteq [tab : Tabs, email : Emails] BY OtherParts DEF CreateAdmin
<1>2. tab' \in [Tabs -> TabStates] /\ SignedInTabs'
  BY FormSteps, NoTabSteps DEF CreateAdmin, Submits
<1> QED BY <1>1, <1>2, OtherParts, Assembles DEF CreateAdmin

LEMMA StepCreateUser ==
    ASSUME SessionInv, NEW r \in registering, CreateUser(r) PROVE SessionInv'
<1>1. r.tab \in Tabs /\ r.email \in Emails BY OtherParts
<1>2. users' \subseteq Emails /\ registering' \subseteq [tab : Tabs, email : Emails]
  BY <1>1, OtherParts DEF CreateUser
<1>3. tab[r.tab].email \in Emails \cup {"none"}
  BY <1>1, TypeParts DEF SessionInv, TabStates
<1>4. \/ tab' = tab
      \/ \E form \in {"none", "login"} :
           tab' = [tab EXCEPT ![r.tab].form = form,
                              ![r.tab].email = IF form = "none" THEN form ELSE @]
  BY DEF CreateUser
<1>5. tab' \in [Tabs -> TabStates] /\ SignedInTabs'
  <2>1. CASE tab' = tab BY <2>1, NoTabSteps DEF CreateUser
  <2>2. ASSUME NEW form \in {"none", "login"},
               tab' = [tab EXCEPT ![r.tab].form = form,
                                  ![r.tab].email = IF form = "none" THEN form ELSE @]
        PROVE  tab' \in [Tabs -> TabStates] /\ SignedInTabs'
    <3> DEFINE email == IF form = "none" THEN form ELSE tab[r.tab].email
    <3>1. email \in Emails \cup {"none"} BY <1>3
    <3>2. tab' = [tab EXCEPT ![r.tab].form = form, ![r.tab].email = email] 
      BY <2>2, <1>1, TypeParts DEF SessionInv, TabStates
    <3> HIDE DEF email
    <3> QED BY <1>1, <3>1, <3>2, FormSteps DEF CreateUser
  <2> QED BY <1>4, <2>1, <2>2
<1>6. errors' \in 0..MaxErrors BY OtherParts, LostCounts DEF CreateUser
<1> QED BY <1>2, <1>5, <1>6, OtherParts, Assembles DEF CreateUser

LEMMA StepSignIn ==
    ASSUME SessionInv, NEW t \in Tabs, NEW email \in Emails, SignIn(t, email)
    PROVE  SessionInv'
<1>1. tab' \in [Tabs -> TabStates] /\ SignedInTabs'
  BY FormSteps DEF SignIn, Submits, serverVars
<1> QED BY <1>1, OtherParts, Assembles DEF SignIn, serverVars

LEMMA StepSignOut ==
    ASSUME SessionInv, NEW t \in Tabs, SignOut(t) PROVE SessionInv'
BY DropsSession, OtherParts, Assembles DEF SignOut, serverVars

(* A sign-in that succeeds: the tab shows the account whose token it was given,   *)
(* and the tokens of the other tabs are not that one.                          *)
LEMMA StepSignedIn ==
    ASSUME SessionInv, NEW t \in Tabs, NEW k \in Tokens \ Issued, NEW email \in Emails,
           SignedIn(t, k, email),
           UNCHANGED <<users, registering, expired, asked, errors>>
    PROVE  SessionInv'
<1> DEFINE in == [Closed EXCEPT !.status = "authenticated", !.user = email, !.token = k]
<1>1. /\ owner' \in [Tokens -> Emails \cup {"none"}] /\ Issued' = Issued \cup {k}
      /\ \A j \in Issued : owner'[j] = owner[j]
      /\ owner'[k] = email
  BY SigningKeepsOwners DEF SignedIn, SessionInv
<1>2. tab \in [Tabs -> TabStates] BY TypeParts DEF SessionInv
<1>3. in \in TabStates BY TabForms DEF Statuses
<1>4. in.boot = "none" /\ in.token = k /\ in.user = email BY DEF Closed
<1>5. tab' = [tab EXCEPT ![t] = in] BY DEF SignedIn
<1> HIDE DEF in
<1>6. \A u \in Tabs : tab'[u] = IF u = t THEN in ELSE tab[u] BY <1>2, <1>5
<1>7. tab' \in [Tabs -> TabStates] BY <1>2, <1>3, <1>5
<1>8. SignedInTabs'
  <2> SUFFICES ASSUME NEW u \in Tabs, tab'[u].status = "authenticated"
               PROVE  /\ tab'[u].boot = "none"
                      /\ tab'[u].token \in Issued' /\ owner'[tab'[u].token] = tab'[u].user
    BY DEF SignedInTabs
  <2>1. CASE u = t BY <1>1, <1>4, <1>6, <2>1
  <2>2. CASE u # t
    <3>1. tab'[u] = tab[u] BY <1>6, <2>2
    <3>2. tab[u].boot = "none" /\ tab[u].token \in Issued /\ owner[tab[u].token] = tab[u].user
      BY <3>1 DEF SessionInv, SignedInTabs
    <3> QED BY <1>1, <3>1, <3>2
  <2> QED BY <2>1, <2>2
<1>9. stored' \in Issued' BY <1>1 DEF SignedIn
<1>10. expired' \subseteq Issued' /\ asked' \in [Tabs -> SUBSET Issued']
  BY <1>1, OtherParts
<1>11. /\ users' \subseteq Emails /\ registering' \subseteq [tab : Tabs, email : Emails]
       /\ errors' \in 0..MaxErrors
  BY OtherParts
<1>12. WebSessionTypeOK'
  BY ONLY <1>1, <1>7, <1>9, <1>10, <1>11 DEF WebSessionTypeOK, TabStates, Statuses
<1> QED BY <1>8, <1>12 DEF SessionInv

LEMMA StepLogin ==
    ASSUME SessionInv, NEW t \in Tabs, Login(t) PROVE SessionInv'
<1>1. CASE /\ tab[t].email \in users /\ Issued # Tokens
           /\ SignedIn(t, FreshToken, tab[t].email) /\ UNCHANGED errors
  <2>1. FreshToken \in Tokens \ Issued BY <1>1, FreshTokenIsFresh DEF SessionInv
  <2>2. tab[t].email \in Emails BY <1>1, OtherParts
  <2> QED BY <1>1, <2>1, <2>2, StepSignedIn DEF Login
<1>2. CASE /\ tab' = [tab EXCEPT ![t].form = "none", ![t].email = "none"]
           /\ UNCHANGED <<owner, stored>>
           /\ Lost \/ UNCHANGED errors
  <2>1. tab' \in [Tabs -> TabStates] /\ SignedInTabs' BY <1>2, FormSteps
  <2>2. errors' \in 0..MaxErrors BY <1>2, OtherParts, LostCounts
  <2> QED BY <1>2, <2>1, <2>2, OtherParts, Assembles DEF Login
<1> QED BY <1>1, <1>2 DEF Login

LEMMA StepExpire ==
    ASSUME SessionInv, NEW k \in Tokens, Expire(k) PROVE SessionInv'
<1>1. expired' \subseteq Issued BY OtherParts DEF Expire
<1> QED BY <1>1, NoTabSteps, OtherParts, Assembles DEF Expire

(* What a page asks with is a signed token: its tab has read one.               *)
LEMMA StepAsk ==
    ASSUME SessionInv, NEW t \in Tabs, Ask(t) PROVE SessionInv'
<1>1. tab[t].status = "authenticated" BY DEF Ask, PagesShown
<1>2. tab[t].token \in Issued /\ tab[t].token # "unread"
  BY <1>1, TypeParts, NoneIsNoName DEF SessionInv, SignedInTabs
<1>3. Current(t) \in Issued BY <1>2 DEF Current
<1>4. asked' \in [Tabs -> SUBSET Issued] BY <1>3, OtherParts DEF Ask
<1> QED BY <1>4, NoTabSteps, OtherParts, Assembles DEF Ask, serverVars

LEMMA StepAnswered ==
    ASSUME SessionInv, NEW t \in Tabs, NEW k \in Tokens, Answered(t, k) PROVE SessionInv'
<1>1. asked' \in [Tabs -> SUBSET Issued] BY OtherParts DEF Answered
<1>2. errors' \in 0..MaxErrors BY OtherParts, LostCounts DEF Answered
<1> QED BY <1>1, <1>2, NoTabSteps, OtherParts, Assembles DEF Answered, serverVars

LEMMA StepRejected ==
    ASSUME SessionInv, NEW t \in Tabs, NEW k \in Tokens, Rejected(t, k) PROVE SessionInv'
<1>1. asked' \in [Tabs -> SUBSET Issued] BY OtherParts DEF Rejected
<1> QED BY <1>1, DropsSession, OtherParts, Assembles DEF Rejected, serverVars

LEMMA NextSession == SessionInv /\ [WebSessionNext]_vars => SessionInv'
<1> SUFFICES ASSUME SessionInv, [WebSessionNext]_vars PROVE SessionInv' OBVIOUS
<1>1. ASSUME NEW t \in Tabs, TabStep(t) PROVE SessionInv'
  BY <1>1, StepOpen, StepBootStatus, StepBootMe, StepLogin, StepSignOut, StepAsk,
     StepCreateAdmin, StepSignIn, StepAnswered, StepRejected DEF TabStep
<1>2. CASE \E r \in registering : CreateUser(r) BY <1>2, StepCreateUser
<1>3. CASE \E k \in Tokens : Expire(k) BY <1>3, StepExpire
<1>4. CASE UNCHANGED vars
  BY <1>4, NoTabSteps, OtherParts, Assembles DEF vars, serverVars
<1> QED BY <1>1, <1>2, <1>3, <1>4 DEF WebSessionNext

(* The types of a session hold, and a tab that shows an account caches a token signed *)
(* for it (stores/auth.ts, tokenStorage.ts).                                    *)
THEOREM SessionInvariance == WebSessionSpec => []SessionInv
BY InitSession, NextSession, PTL DEF WebSessionSpec

(* Every state of the accounts, the tabs and their requests has its type; in      *)
(* particular every token in local storage, in a request or expired was signed.   *)
THEOREM SessionTypes == WebSessionSpec => []WebSessionTypeOK
<1>1. SessionInv => WebSessionTypeOK BY DEF SessionInv
<1> QED BY <1>1, SessionInvariance, PTL

(* A tab acts for the account it shows, whatever the browser's other tabs do.     *)
THEOREM TabsActForTheirUser == WebSessionSpec => []ShownUserActs
<1>1. SessionInv => ShownUserActs
  <2> SUFFICES ASSUME SessionInv, NEW t \in Tabs, tab[t].status = "authenticated"
               PROVE  Current(t) \in Issued /\ owner[Current(t)] = tab[t].user
    BY DEF ShownUserActs
  <2>1. tab[t].token \in Issued /\ owner[tab[t].token] = tab[t].user
    BY DEF SessionInv, SignedInTabs
  <2>2. tab[t].token # "unread" BY <2>1, TypeParts, NoneIsNoName DEF SessionInv
  <2> QED BY <2>1, <2>2 DEF Current
<1> QED BY <1>1, SessionInvariance, PTL
===============================================================================
