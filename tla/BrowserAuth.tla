---------------------------- MODULE BrowserAuth ----------------------------
(***************************************************************************)
(* The sign-in of one browser page: the tokens in localStorage and the     *)
(* interceptors of its requests (utils/api.ts), the auth store             *)
(* (store/authStore.ts), and the server's side of it: the routes           *)
(* (api/routes/auth.py), the tokens (identity/token.py) and their          *)
(* verification (gateway middleware/auth.ts).                              *)
(***************************************************************************)
EXTENDS Naturals, FiniteSets

CONSTANTS Fetches   \* requests of the page that may be under way at once

ASSUME AuthAssumption == IsFiniteSet(Fetches)

VARIABLES
    access,     \* access token in localStorage
    refresh,    \* refresh token in localStorage
    page,       \* the auth store: is somebody signed in, with which roles
    signingIn,  \* login or loginWithWecom awaits its answer
    refreshing, \* isRefreshing: the refresh token that was sent
    fetches     \* requests under way: the token each was sent with, _retry, times sent

authVars == <<access, refresh, page, signingIn, refreshing, fetches>>

NoToken == [is |-> "none", roles |-> FALSE]
Token(roles) == [is |-> "fresh", roles |-> roles]
SignedOut == [authed |-> FALSE, roles |-> FALSE]
NoFetch == [pc |-> "idle", token |-> NoToken, retry |-> FALSE, sends |-> 0]
NoFetches == [f \in Fetches |-> NoFetch]

AuthInit ==
    /\ access = NoToken /\ refresh = "none"
    /\ page = SignedOut /\ signingIn = FALSE
    /\ refreshing = "no" /\ fetches = NoFetches

-----------------------------------------------------------------------------
\* verifyJwt: the gateway takes a token that has not expired.
Verified(t) == t.is = "fresh"

ClearTokens == access' = NoToken /\ refresh' = "none"

\* A new document: initialize takes the user from the stored token, unless it has expired
\* and cannot be refreshed.
Load(a, r) ==
    LET known == a.is = "fresh" \/ (a.is = "expired" /\ r # "none") IN
    /\ page' = IF known THEN [authed |-> TRUE, roles |-> a.roles] ELSE SignedOut
    /\ IF known \/ a.is = "none" THEN access' = a /\ refresh' = r ELSE ClearTokens
    /\ fetches' = NoFetches /\ refreshing' = "no" /\ signingIn' = FALSE

Reload == Load(access, refresh)

\* The login page: POST /auth/login or /auth/wecom/callback, whose failure signs the page
\* out and leaves the tokens.
SignIn ==
    /\ ~page.authed /\ ~signingIn /\ signingIn' = TRUE
    /\ UNCHANGED <<access, refresh, page, refreshing, fetches>>

\* verify_password, verify_wecom_user: the token has the roles of the user.
Issued == Token(TRUE)

SignedIn ==
    /\ signingIn /\ signingIn' = FALSE
    /\ \/ /\ access' = Issued /\ refresh' = "fresh"  \* create_token_set
          /\ page' = [authed |-> TRUE, roles |-> TRUE]
       \/ page' = [page EXCEPT !.authed = FALSE] /\ UNCHANGED <<access, refresh>>
    /\ UNCHANGED <<refreshing, fetches>>

\* logout, which does not reload the page.
Logout ==
    /\ page.authed /\ page' = SignedOut
    /\ ClearTokens
    /\ UNCHANGED <<signingIn, refreshing, fetches>>

\* Time passes: exp of one of the tokens.
Expire ==
    /\ \/ access.is = "fresh" /\ access' = [access EXCEPT !.is = "expired"] /\ UNCHANGED refresh
       \/ refresh = "fresh" /\ refresh' = "expired" /\ UNCHANGED access
    /\ UNCHANGED <<page, signingIn, refreshing, fetches>>

-----------------------------------------------------------------------------
\* A request of a signed-in page, with the token of now.
Send(f) ==
    /\ page.authed /\ fetches[f].pc = "idle"
    /\ fetches' = [fetches EXCEPT ![f] = [pc |-> "sent", token |-> access, retry |-> FALSE, sends |-> 1]]
    /\ UNCHANGED <<access, refresh, page, signingIn, refreshing>>

\* A response other than 401, an error included.
Answered(f) ==
    /\ fetches[f].pc = "sent" /\ Verified(fetches[f].token)
    /\ fetches' = [fetches EXCEPT ![f] = NoFetch]
    /\ UNCHANGED <<access, refresh, page, signingIn, refreshing>>

\* No response: a network error or a time-out, whatever the token, is the caller's.
NoResponse(f) ==
    /\ fetches[f].pc = "sent"
    /\ fetches' = [fetches EXCEPT ![f] = NoFetch]
    /\ UNCHANGED <<access, refresh, page, signingIn, refreshing>>

\* Mutant: every 401 is worth another refresh.
Always(f) == TRUE

\* The interceptor refreshes for a request it has not sent twice.
Refreshes(f) == ~fetches[f].retry

\* Without a new token: clearTokens and the login page, as a new document.
Redirected == Load(NoToken, "none")

\* 401, by the gateway or by the backend: the first such request starts the refresh,
\* those after it wait for the same answer; a second 401 of a request is an error.
Unauthorized(f) ==
    /\ fetches[f].pc = "sent"
    /\ IF ~Refreshes(f)
       THEN /\ fetches' = [fetches EXCEPT ![f] = NoFetch]
            /\ UNCHANGED <<access, refresh, page, signingIn, refreshing>>
       ELSE IF refreshing = "no" /\ refresh = "none" THEN Redirected
       ELSE /\ fetches' = [fetches EXCEPT ![f].pc = "waiting", ![f].retry = TRUE]
            /\ refreshing' = IF refreshing = "no" THEN refresh ELSE refreshing
            /\ UNCHANGED <<access, refresh, page, signingIn>>

\* POST /auth/refresh answers: refresh_token_set makes a token that has no roles, and the
\* requests that waited are sent again with it.
Refreshed ==
    /\ refreshing = "fresh" /\ refreshing' = "no"
    /\ access' = Token(FALSE)
    /\ fetches' = [f \in Fetches |-> IF fetches[f].pc = "waiting"
                                     THEN [fetches[f] EXCEPT !.pc = "sent", !.token = Token(FALSE), !.sends = @ + 1]
                                     ELSE fetches[f]]
    /\ UNCHANGED <<refresh, page, signingIn>>

\* It is refused, fails or times out.
RefreshFails == refreshing # "no" /\ Redirected

AuthNext ==
    \/ Reload \/ SignIn \/ SignedIn \/ Logout \/ Expire \/ Refreshed \/ RefreshFails
    \/ \E f \in Fetches : Send(f) \/ Answered(f) \/ NoResponse(f) \/ Unauthorized(f)

AuthSpec == AuthInit /\ [][AuthNext]_authVars

-----------------------------------------------------------------------------
Tokens == [is : {"none", "fresh", "expired"}, roles : BOOLEAN]

AuthTypeOK ==
    /\ access \in Tokens /\ refresh \in {"none", "fresh", "expired"}
    /\ page \in [authed : BOOLEAN, roles : BOOLEAN] /\ signingIn \in BOOLEAN
    /\ refreshing \in {"no", "fresh", "expired"}
    /\ fetches \in [Fetches -> [pc : {"idle", "sent", "waiting"}, token : Tokens,
                                retry : BOOLEAN, sends : 0..2]]

\* However the answers of requests, refreshes, logins and logouts cross: a request is sent
\* at most twice, one that waits for a refresh has one under way that will answer it, and
\* a page that shows somebody as signed in has a token to send.
RetriesAreBounded ==
    /\ \A f \in Fetches : fetches[f].sends <= 2 /\ (fetches[f].pc = "waiting" => refreshing # "no")
    /\ page.authed => access.is # "none"

\* "Roles and department are not in the refresh token; the caller must fetch them again
\* if they are needed" (identity/token.py:125): a page has the roles of its user.
RolesAreKept == page.authed => page.roles

=============================================================================
