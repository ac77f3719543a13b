------------------------------ MODULE Sessions ------------------------------
(* Signing in, staying signed in and leaving, for one email address and one  *)
(* cookie jar that several tabs share: auth/linking.go, auth/handlers.go,    *)
(* the refresh tokens of auth/auth.go, and the deletion of the account with  *)
(* its days of grace (api/takeout.go).  Every statement a handler sends is a *)
(* step of its tab, and the reply that sets the cookie is one more.  Codes   *)
(* sent by mail are EmailCodes; here one that opens is an input.  Tokens,    *)
(* codes and identities cascade with the account, so those that exist belong *)
(* to the account that exists.                                               *)
EXTENDS Naturals, FiniteSets

CONSTANTS
  Tabs,         \* requests that may be open at the same time
  SessionDays,  \* life of a refresh token
  GraceDays,    \* a deleted account is kept this long
  LastDate,     \* bound: the clock
  MaxSignIns,   \* bound: sign-ins ever begun
  MaxTokens,    \* bound: refresh tokens ever issued
  MaxAccounts,  \* bound: accounts ever created
  MaxLost       \* bound: requests that die, or whose reply is lost

ASSUME SessionsAssumption ==
  /\ SessionDays \in Nat \ {0} /\ GraceDays \in Nat \ {0}
  /\ Tabs # {}

VARIABLES
  date,      \* the clock, in days
  account,   \* [id |-> 0 if there is none, gone |-> deleted_at or 0]
  accounts,  \* ids given out
  google,    \* is the Google identity attached?
  mailed,    \* is the email identity attached?
  challenge, \* account an unconsumed "link" code was sent for, or 0
  natives,   \* the oauth_exchange_codes: sign-ins waiting for the app
  tokens,    \* the refresh_tokens: [no, signIn, until]
  minted,    \* tokens given out
  signIns,   \* sign-ins begun
  jar,       \* the token in the refresh cookie, or 0
  tab,       \* [Tabs -> where a request is]
  lost,      \* requests that died
  due,       \* history: is this browser entitled to be signed in?
  over,      \* history: sign-ins whose live token logout deleted
  staying,   \* history: the account whose owner came back and stayed, or 0
  unrestored \* history: accounts a sign-in by mail failed to restore, unnoticed

sessionVars == <<date, account, accounts, google, mailed, challenge, natives, tokens,
                 minted, signIns, jar, tab, lost, due, over, staying, unrestored>>

Closing == [step |-> "closed", signIn |-> 0, id |-> 0, had |-> 0, new |-> 0, stays |-> FALSE]
NoAccount == [id |-> 0, gone |-> 0]

-----------------------------------------------------------------------------

Is(t, step) == tab[t].step = step
Becomes(t, state) == tab' = [tab EXCEPT ![t] = state]
Steps(t, step) == Becomes(t, [tab[t] EXCEPT !.step = step])
Open(t) == Is(t, "closed")
Restored == [account EXCEPT !.gone = 0]
Restores == account' = Restored /\ unrestored' = unrestored \ {account.id}
Begun(step, id) == [Closing EXCEPT !.step = step, !.signIn = signIns + 1, !.id = id, !.stays = TRUE]
BeginSignIn == signIns < MaxSignIns /\ signIns' = signIns + 1
NewAccount == /\ accounts < MaxAccounts /\ accounts' = accounts + 1
              /\ account' = [id |-> accounts + 1, gone |-> 0]

ledger == <<natives, tokens, minted>>
people == <<account, accounts, google, mailed, challenge, unrestored>>
browser == <<jar, due, over, staying>>

\* resolveOrLinkIdentity, one SERIALIZABLE transaction: a known identity, or
\* one the provider vouches for, signs in and ends the grace; a new address
\* gets an account; an unvouched one is challenged by mail.  A statement that
\* fails, the UPDATE of deleted_at too, makes the commit fail.
ResolveOrLink(t) ==
  /\ Open(t) /\ BeginSignIn
  /\ \E vouched, native \in BOOLEAN :
       LET next == IF native THEN "native" ELSE "issue"
       IN \/ /\ account.id = 0 /\ NewAccount
             /\ google' = TRUE /\ Becomes(t, Begun(next, accounts'))
             /\ UNCHANGED unrestored
          \/ /\ account.id # 0 /\ (google \/ vouched)
             /\ Restores /\ google' = TRUE
             /\ Becomes(t, Begun(next, account.id))
             /\ UNCHANGED accounts
          \/ /\ account.id # 0 /\ ~google /\ ~vouched
             /\ Becomes(t, [Closing EXCEPT !.step = "challenge", !.id = account.id])
             /\ UNCHANGED <<account, accounts, google, unrestored>>
  /\ UNCHANGED <<date, mailed, challenge, ledger, browser, lost>>

\* The code row refers to the account: gone by now, the insert fails.
SendChallenge(t) ==
  /\ Is(t, "challenge")
  /\ challenge' = IF account.id = tab[t].id THEN account.id ELSE challenge
  /\ Becomes(t, Closing)
  /\ UNCHANGED <<date, account, accounts, google, mailed, ledger, signIns, browser, lost,
                 unrestored>>

\* handleEmailVerify once the code is consumed: a sign-in, or the answer to a
\* challenge, which attaches the identity and leaves deleted_at alone.
VerifyLogin(t) ==
  /\ Open(t) /\ BeginSignIn
  /\ Becomes(t, Begun("find", 0))
  /\ UNCHANGED <<date, people, ledger, browser, lost>>

VerifyLink(t) ==
  /\ Open(t) /\ BeginSignIn /\ challenge # 0
  /\ challenge' = 0
  /\ Becomes(t, [Begun("attach", challenge) EXCEPT !.stays = FALSE])
  /\ UNCHANGED <<date, account, accounts, google, mailed, ledger, browser, lost, unrestored>>

\* findOrCreateByEmail: SELECT, then clear deleted_at or INSERT.
FindByEmail(t) ==
  /\ Is(t, "find")
  /\ Becomes(t, [tab[t] EXCEPT !.step = IF account.id = 0 THEN "create" ELSE "restore",
                               !.id = account.id])
  /\ UNCHANGED <<date, people, ledger, signIns, browser, lost>>

RestoreSkipped(t) ==  \* mutant: signing in leaves deleted_at alone
  /\ Is(t, "restore")
  /\ Steps(t, "identify")
  /\ UNCHANGED <<date, people, ledger, signIns, browser, lost>>

\* UPDATE users SET deleted_at = NULL; nobody looks at its error, and the
\* sign-in goes on with the account still in its grace.
RestoreByEmail(t) ==
  /\ Is(t, "restore")
  /\ \/ account.id = tab[t].id /\ Restores
     \/ account.id # tab[t].id /\ UNCHANGED <<account, unrestored>>
     \/ /\ account.id = tab[t].id /\ account.gone # 0
        /\ unrestored' = unrestored \cup {account.id} /\ UNCHANGED account
  /\ Steps(t, "identify")
  /\ UNCHANGED <<date, accounts, google, mailed, challenge, ledger, signIns, browser, lost>>

\* users.email is UNIQUE: the second of two first sign-ins fails.
CreateByEmail(t) ==
  /\ Is(t, "create")
  /\ IF account.id = 0
     THEN NewAccount /\ Becomes(t, [tab[t] EXCEPT !.step = "identify", !.id = accounts'])
     ELSE Becomes(t, Closing) /\ UNCHANGED <<account, accounts>>
  /\ UNCHANGED <<date, google, mailed, challenge, ledger, signIns, browser, lost, unrestored>>

\* INSERT INTO auth_identities ... ON CONFLICT only touches: an identity that
\* is there hides that the account of the request is not.
Identify(t) ==
  /\ \/ /\ Is(t, "identify") /\ UNCHANGED google
        /\ mailed' = (mailed \/ account.id = tab[t].id)
        /\ IF mailed' THEN Steps(t, "issue") ELSE Becomes(t, Closing)
     \/ /\ Is(t, "attach") /\ UNCHANGED mailed
        /\ google' = (google \/ account.id = tab[t].id)
        /\ IF google' THEN Steps(t, "issue") ELSE Becomes(t, Closing)
  /\ UNCHANGED <<date, account, accounts, challenge, ledger, signIns, browser, lost, unrestored>>

\* The app cannot see the browser's cookies: it is given a code to redeem,
\* DELETE ... RETURNING, for a session of its own.
IssueNative(t) ==
  /\ Is(t, "native")
  /\ natives' = IF account.id = tab[t].id
                THEN natives \cup {[signIn |-> tab[t].signIn, stays |-> tab[t].stays]}
                ELSE natives
  /\ Becomes(t, Closing)
  /\ UNCHANGED <<date, people, tokens, minted, signIns, browser, lost>>

ExchangeNative(t) ==
  /\ Open(t)
  /\ \E code \in natives :
       /\ natives' = natives \ {code}
       /\ Becomes(t, [Closing EXCEPT !.step = "issue", !.signIn = code.signIn,
                                     !.id = account.id, !.stays = code.stays])
  /\ UNCHANGED <<date, people, tokens, minted, signIns, browser, lost>>

\* issueSession: INSERT INTO refresh_tokens, refused without the account.
IssueSession(t) ==
  /\ Is(t, "issue")
  /\ IF account.id = tab[t].id
     THEN /\ minted < MaxTokens /\ minted' = minted + 1
          /\ tokens' = tokens \cup {[no |-> minted', signIn |-> tab[t].signIn,
                                     until |-> date + SessionDays]}
          /\ Becomes(t, [tab[t] EXCEPT !.step = "reply", !.new = minted'])
     ELSE UNCHANGED <<tokens, minted>> /\ Becomes(t, Closing)
  /\ UNCHANGED <<date, people, natives, signIns, browser, lost>>

Live(no) == \E token \in tokens : token.no = no /\ token.until > date

\* The reply reaches the browser and sets the cookie.
Reply(t) ==
  /\ Is(t, "reply")
  /\ jar' = tab[t].new /\ due' = Live(tab[t].new)
  /\ staying' = IF tab[t].stays THEN tab[t].id ELSE staying
  /\ Becomes(t, Closing)
  /\ UNCHANGED <<date, people, ledger, signIns, over, lost>>

\* A tab presents the cookie as it is when it asks.
Present(t) ==
  /\ Open(t) /\ jar # 0
  /\ \E step \in {"refresh", "logout"} :
       Becomes(t, [Closing EXCEPT !.step = step, !.had = jar])
  /\ UNCHANGED <<date, people, ledger, signIns, browser, lost>>

ConsumeKept(t) ==  \* mutant: looked up, and deleted by nobody
  /\ Is(t, "refresh")
  /\ IF Live(tab[t].had)
     THEN \E token \in tokens :
            /\ token.no = tab[t].had
            /\ Becomes(t, [tab[t] EXCEPT !.step = "issue", !.signIn = token.signIn,
                                         !.id = account.id])
     ELSE Becomes(t, Closing)
  /\ UNCHANGED <<date, people, ledger, signIns, browser, lost>>

ConsumeClearing(t) ==  \* mutant: a refused refresh clears the cookie
  /\ Is(t, "refresh")
  /\ IF Live(tab[t].had)
     THEN \E token \in tokens :
            /\ token.no = tab[t].had
            /\ tokens' = tokens \ {token} /\ UNCHANGED jar
            /\ Becomes(t, [tab[t] EXCEPT !.step = "issue", !.signIn = token.signIn,
                                         !.id = account.id])
     ELSE jar' = 0 /\ Becomes(t, Closing) /\ UNCHANGED tokens
  /\ UNCHANGED <<date, people, natives, minted, signIns, due, over, staying, lost>>

\* consumeRefreshToken: DELETE ... RETURNING; without a row, 401 and the
\* cookie stays as it is.
Consume(t) ==
  /\ Is(t, "refresh")
  /\ IF Live(tab[t].had)
     THEN \E token \in tokens :
            /\ token.no = tab[t].had
            /\ tokens' = tokens \ {token}
            /\ Becomes(t, [tab[t] EXCEPT !.step = "issue", !.signIn = token.signIn,
                                         !.id = account.id])
     ELSE Becomes(t, Closing) /\ UNCHANGED tokens
  /\ UNCHANGED <<date, people, natives, minted, signIns, browser, lost>>

\* A token that could not be deleted lives on: the error is not looked at.
Logout(t) ==
  /\ Is(t, "logout")
  /\ \E gone \in {{token \in tokens : token.no = tab[t].had /\ token.until > date}, {}} :
        /\ tokens' = tokens \ gone
        /\ over' = over \cup {token.signIn : token \in gone}
  /\ due' = FALSE
  /\ Steps(t, "clear")
  /\ UNCHANGED <<date, people, natives, minted, signIns, jar, staying, lost>>

ClearCookie(t) ==
  /\ Is(t, "clear")
  /\ jar' = 0 /\ due' = FALSE
  /\ Becomes(t, Closing)
  /\ UNCHANGED <<date, people, ledger, signIns, over, staying, lost>>

\* A request dies where it stands, or its reply never arrives.
Lose(t) ==
  /\ ~Open(t) /\ lost < MaxLost
  /\ lost' = lost + 1
  /\ due' = FALSE
  /\ Becomes(t, Closing)
  /\ UNCHANGED <<date, people, ledger, signIns, jar, over, staying>>

\* The access token outlives the cookie's: a signed-out tab may still ask.
SoftDelete ==
  /\ account.id # 0 /\ account.gone = 0
  /\ account' = [account EXCEPT !.gone = date]
  /\ tab' = [t \in Tabs |-> [tab[t] EXCEPT !.stays = FALSE]]
  /\ natives' = {[code EXCEPT !.stays = FALSE] : code \in natives}
  /\ staying' = 0
  /\ UNCHANGED <<date, accounts, google, mailed, challenge, tokens, minted, signIns, jar,
                 lost, due, over, unrestored>>

CancelDelete ==
  /\ account.gone # 0
  /\ Restores /\ staying' = account.id
  /\ UNCHANGED <<date, accounts, google, mailed, challenge, ledger, signIns, tab, jar,
                 lost, due, over>>

\* At boot and every hour.
Purge ==
  /\ account.gone # 0 /\ account.gone + GraceDays < date
  /\ account' = NoAccount /\ google' = FALSE /\ mailed' = FALSE
  /\ challenge' = 0 /\ natives' = {} /\ tokens' = {}
  /\ due' = FALSE
  /\ UNCHANGED <<date, accounts, minted, signIns, jar, tab, lost, over, staying, unrestored>>

\* Requests last a minute: none is open across a day.  The app's code lasts
\* five minutes, the mailed one ten.
PassDate ==
  /\ date < LastDate /\ \A t \in Tabs : Open(t)
  /\ date' = date + 1
  /\ natives' = {} /\ challenge' = 0
  /\ due' = (due /\ \E token \in tokens : token.no = jar /\ token.until > date')
  /\ UNCHANGED <<account, accounts, google, mailed, tokens, minted, signIns, jar, tab, lost,
                 over, staying, unrestored>>

SessionsInit ==
  /\ date = 1 /\ account = NoAccount /\ accounts = 0 /\ google = FALSE /\ mailed = FALSE
  /\ challenge = 0 /\ natives = {} /\ tokens = {} /\ minted = 0 /\ signIns = 0
  /\ jar = 0 /\ tab = [t \in Tabs |-> Closing] /\ lost = 0
  /\ due = FALSE /\ over = {} /\ staying = 0 /\ unrestored = {}

SessionsNext ==
  \/ \E t \in Tabs :
       \/ ResolveOrLink(t) \/ SendChallenge(t) \/ VerifyLogin(t) \/ VerifyLink(t)
       \/ FindByEmail(t) \/ RestoreByEmail(t) \/ CreateByEmail(t) \/ Identify(t)
       \/ IssueNative(t) \/ ExchangeNative(t) \/ IssueSession(t) \/ Reply(t)
       \/ Present(t) \/ Consume(t) \/ Logout(t) \/ ClearCookie(t) \/ Lose(t)
  \/ SoftDelete \/ CancelDelete \/ Purge \/ PassDate

SessionsSpec == SessionsInit /\ [][SessionsNext]_sessionVars

-----------------------------------------------------------------------------

\* "A second use 401s": however often a cookie is replayed and whichever
\* tabs race, a sign-in is carried by one thing at a time: a request, an
\* app's code or one token; none is left once logout has deleted its token.
OneTokenPerSignIn ==
  \A s \in 1..signIns :
    LET carriers == Cardinality({token \in tokens : token.signIn = s})
                      + Cardinality({code \in natives : code.signIn = s})
                      + Cardinality({t \in Tabs : tab[t].signIn = s /\ tab[t].new = 0})
    IN carriers <= (IF s \in over THEN 0 ELSE 1)

\* "Nuking the cookie permanently logs the user out for no good reason": two
\* tabs refreshing, a late reply or a refused replay never sign a browser
\* out.  Its cookie is a live token, or the tab that spent it is about to
\* bring the next; unless it was given to logout, expired, purged with the
\* account, or a request died.
StaysSignedIn ==
  due => \/ Live(jar)
         \/ \E t \in Tabs : tab[t].had = jar /\ tab[t].step \in {"issue", "reply"}

\* "Account un-deleted": who signs in during the grace and is not deleted
\* again keeps the account, whatever purge and second tab come between the
\* statements.  The answer to a link challenge does not count: it restores
\* nothing.  Nor does a sign-in by mail whose UPDATE failed, until a later one
\* or the cancelling of the deletion restores the account.
ReturnKeepsAccount ==
  staying # 0 /\ staying \notin unrestored => account = [id |-> staying, gone |-> 0]

\* A sign-in has one working token, and retries and races of its tabs do not
\* sign the browser out.
SignInsHold == OneTokenPerSignIn /\ StaysSignedIn

=============================================================================
