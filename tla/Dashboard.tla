----------------------------- MODULE Dashboard ------------------------------
(***************************************************************************)
(* The CEO dashboard: ceo_dashboard.py with ceo_auth.py, and the page that *)
(* it serves.  A thread handles each request; the session store, the cache *)
(* of the bots' state and the cache of names are dictionaries which the    *)
(* threads share without a lock.  The identity of a request is taken when  *)
(* it is handled, before the calls to Mattermost.                          *)
(*                                                                         *)
(* Time is relative: sessions, cache entries and calls have ages, which    *)
(* Tick and Hours let grow.  A session that no cookie names any more is    *)
(* left out: the store keeps it until a restart, but nobody finds it.      *)
(***************************************************************************)
EXTENDS Integers, FiniteSets

CONSTANTS
  Browser,      \* browsers: one cookie each, any number of tabs
  Thread,       \* bound: requests handled at once
  User, Channel,
  Files,        \* contents of accounts_config.json: functions from User to Identity or NoAccount
  NoAccount,    \* no account of a login
  MMRole,       \* MMRole[u]: the role that Mattermost's answer to a login gives
  SessionTTL, StatusTTL

Identity == [role: {"ceo", "staff"}, channels: SUBSET Channel]

ASSUME DashboardOK == /\ Files \subseteq [User -> Identity \cup {NoAccount}] /\ Files # {}
                      /\ NoAccount \notin Identity /\ MMRole \in [User -> {"ceo", "staff"}]
                      /\ SessionTTL \in Nat \ {0} /\ StatusTTL \in Nat \ {0}

VARIABLES
  accounts,  \* ACCOUNTS: accounts_config.json as the server has read it
  store,     \* store[b]: the session under the cookie of b
  login,     \* login[b]: the login that the user of b is in by right (observed)
  mmUp,      \* Mattermost answers
  botOk,     \* the account of the bot is not deleted
  cache,     \* _bot_status_cache: answer, time left, and age of the answer (observed)
  named,     \* _author_cache: the name kept for an author
  req,       \* what each thread is handling, and (observed) whether it was begun by right
  page       \* what the page in b shows; "login" for the login form

serverVars == <<accounts, store, cache, named>>
worldVars  == <<mmUp, botOk>>
dashVars == <<serverVars, worldVars, login, req, page>>

NoSession == [age |-> 0, ident |-> NoAccount]
NoLogin   == [age |-> 0, rights |-> NoAccount]
NoEntry   == [answer |-> "", left |-> 0, age |-> 0]
Idle      == [kind |-> "idle"]
LoginForm == [view |-> "login", bot |-> "", name |-> ""]
Fresh     == [view |-> "page", bot |-> "", name |-> ""]

-----------------------------------------------------------------------------
(* Who may see what *)

\* authenticate: the account of the file; or, for a login that has none there or whose
\* password there is another, what Mattermost says.
authenticate(u) ==
  ({accounts[u]} \ {NoAccount})
    \cup {i \in {[role |-> MMRole[u], channels |-> {}]} : mmUp}

channels_for_role(ident) == IF ident.role = "ceo" THEN Channel ELSE ident.channels
post_channels_for_role(ident) == channels_for_role(ident)

\* Slip: an expired session is found.
get_anyage(b) == IF store[b] = NoSession THEN NoAccount ELSE store[b].ident

\* SessionStore.get.  (It also drops an expired session, which shows nowhere else.)
get(b) == IF store[b] = NoSession \/ store[b].age >= SessionTTL THEN NoAccount ELSE store[b].ident

-----------------------------------------------------------------------------
DashTypeOK ==
  /\ accounts \in Files /\ mmUp \in BOOLEAN /\ botOk \in BOOLEAN
  /\ named \in {"", "name", "somebody"}
  /\ \A b \in Browser :
       /\ store[b] = NoSession \/ store[b] \in [age: 0..SessionTTL, ident: Identity]
       /\ login[b] = NoLogin \/ login[b] \in [age: 0..SessionTTL, rights: Identity]
       /\ page[b] \in [view: {"login", "page"}, bot: {"", "active", "inactive"},
                       name: {"", "name", "somebody"}]
       /\ page[b].view = "login" => page[b] = LoginForm
  /\ cache \in [answer: {"", "active"}, left: 0..StatusTTL, age: 0..StatusTTL]
  /\ \A t \in Thread : req[t] = Idle \/
       req[t] \in [kind: {"roster", "history", "post"}, browser: Browser,
                   entitled: BOOLEAN, awaited: BOOLEAN,
                   answer: {"", "active", "inactive", "posts"},
                   age: 0..StatusTTL, answerAge: 0..StatusTTL]

DashInit ==
  /\ accounts \in Files
  /\ store = [b \in Browser |-> NoSession] /\ login = [b \in Browser |-> NoLogin]
  /\ mmUp \in BOOLEAN /\ botOk \in BOOLEAN /\ cache = NoEntry /\ named = ""
  /\ req = [t \in Thread |-> Idle] /\ page = [b \in Browser |-> LoginForm]

-----------------------------------------------------------------------------
(* The world *)

Older(n, limit) == IF n < limit THEN n + 1 ELSE n

\* Entries and calls grow older by the second ...
Tick ==
  /\ cache' = IF cache = NoEntry THEN NoEntry
              ELSE [cache EXCEPT !.left = IF @ = 0 THEN 0 ELSE @ - 1, !.age = Older(@, StatusTTL)]
  /\ req' = [t \in Thread |-> IF req[t].kind # "roster" THEN req[t]
               ELSE [req[t] EXCEPT !.age = Older(@, StatusTTL),
                                   !.answerAge = IF req[t].answer = "active" THEN Older(@, StatusTTL) ELSE 0]]
  /\ UNCHANGED <<accounts, store, named, worldVars, login, page>>

\* ... and sessions by the hour: a clock of their own, which need not run on, so that
\* nothing can count on a session to end.
Hours ==
  /\ store' = [b \in Browser |-> IF store[b] = NoSession THEN NoSession
                                 ELSE [store[b] EXCEPT !.age = Older(@, SessionTTL)]]
  /\ login' = [b \in Browser |-> IF login[b] = NoLogin THEN NoLogin
                                 ELSE [login[b] EXCEPT !.age = Older(@, SessionTTL)]]
  /\ UNCHANGED <<accounts, cache, named, worldVars, req, page>>

Mattermost == mmUp' = ~mmUp /\ UNCHANGED <<serverVars, botOk, login, req, page>>
BotAccount == botOk' = ~botOk /\ UNCHANGED <<serverVars, mmUp, login, req, page>>

\* Sessions and caches are in memory, and the accounts, which the operator may have
\* edited, are read once.
Restart ==
  /\ accounts' \in Files /\ cache' = NoEntry /\ named' = ""
  /\ store' = [b \in Browser |-> NoSession] /\ login' = [b \in Browser |-> NoLogin]
  /\ req' = [t \in Thread |-> Idle]
  /\ UNCHANGED <<worldVars, page>>

-----------------------------------------------------------------------------
(* Sessions.  A login waits for Mattermost only before it changes anything. *)

\* Every change between form and page loads another page, which knows nothing of the
\* requests of the one before.
Load(b, p) ==
  /\ page' = [page EXCEPT ![b] = p]
  /\ req' = [t \in Thread |-> IF req[t] # Idle /\ req[t].browser = b
                              THEN [req[t] EXCEPT !.awaited = FALSE] ELSE req[t]]

_do_login(b, u) ==
  /\ page[b].view = "login"
  /\ \E ident \in authenticate(u) :
       /\ store' = [store EXCEPT ![b] = [age |-> 0, ident |-> ident]]
       /\ login' = [login EXCEPT ![b] = [age |-> 0, rights |-> ident]]
  /\ Load(b, Fresh)
  /\ UNCHANGED <<accounts, cache, named, worldVars>>

_do_logout(b) ==
  /\ page[b].view = "page"
  /\ store' = [store EXCEPT ![b] = NoSession] /\ login' = [login EXCEPT ![b] = NoLogin]
  /\ Load(b, LoginForm)
  /\ UNCHANGED <<accounts, cache, named, worldVars>>

\* 401: the page gives way to the login form.
Unauthorized(b) ==
  /\ page[b].view = "page" /\ get(b) = NoAccount
  /\ Load(b, LoginForm)
  /\ UNCHANGED <<serverVars, worldVars, login>>

\* A request that the user of b may make: within SessionTTL of a login that was not
\* logged out, and within what that login was given.
Rightful(b, kind, c) ==
  /\ login[b] # NoLogin /\ login[b].age < SessionTTL
  /\ login[b].rights.role = "ceo" \/ (kind # "roster" /\ c \in login[b].rights.channels)

Begin(t, b, kind, c) ==
  /\ req[t] = Idle /\ get(b) # NoAccount
  /\ req' = [req EXCEPT ![t] = [kind |-> kind, browser |-> b, entitled |-> Rightful(b, kind, c),
                                awaited |-> kind # "post", answer |-> "", age |-> 0, answerAge |-> 0]]

\* Slip: an answer is shown wherever the page has gone.
Show_always(t, field, x) == [page EXCEPT ![req[t].browser][field] = x]

Show(t, field, x) == IF req[t].awaited THEN [page EXCEPT ![req[t].browser][field] = x] ELSE page
End(t) == req' = [req EXCEPT ![t] = Idle]

-----------------------------------------------------------------------------
(* /api/roles: bot_status *)

Cached == cache # NoEntry /\ cache.left > 0

\* An entry that has not expired is the answer; else Mattermost is asked.
RosterCached(b) ==
  /\ get(b) # NoAccount /\ get(b).role # "staff" /\ Cached
  /\ page' = [page EXCEPT ![b].bot = cache.answer]
  /\ UNCHANGED <<serverVars, worldVars, login, req>>

RosterBegin(t, b) ==
  /\ Begin(t, b, "roster", "") /\ get(b).role # "staff" /\ ~Cached
  /\ UNCHANGED <<serverVars, worldVars, login, page>>

BotAnswer(t) ==
  /\ req[t].kind = "roster" /\ req[t].answer = ""
  /\ req' = [req EXCEPT ![t].answer = IF mmUp /\ botOk THEN "active" ELSE "inactive"]
  /\ UNCHANGED <<serverVars, worldVars, login, page>>

\* Slip: the entry's time begins when the answer is there.
BotStore_fromend(t) ==
  /\ req[t].kind = "roster" /\ req[t].answer # ""
  /\ cache' = IF req[t].answer = "active"
              THEN [answer |-> "active", left |-> StatusTTL, age |-> req[t].answerAge] ELSE NoEntry
  /\ page' = Show(t, "bot", req[t].answer) /\ End(t)
  /\ UNCHANGED <<accounts, store, named, worldVars, login>>

\* Slip: a failure raises out of the request, and the page keeps what it showed.
BotStore_raises(t) ==
  /\ req[t].kind = "roster" /\ req[t].answer # ""
  /\ cache' = IF req[t].answer = "active"
              THEN [answer |-> "active", left |-> StatusTTL - req[t].age, age |-> req[t].answerAge]
              ELSE NoEntry
  /\ page' = IF req[t].answer = "active" THEN Show(t, "bot", "active") ELSE page
  /\ End(t)
  /\ UNCHANGED <<accounts, store, named, worldVars, login>>

\* Only a success is kept, for a time that began before the call; a failure drops
\* whatever entry there is.
BotStore(t) ==
  /\ req[t].kind = "roster" /\ req[t].answer # ""
  /\ cache' = IF req[t].answer = "active"
              THEN [answer |-> "active", left |-> StatusTTL - req[t].age, age |-> req[t].answerAge]
              ELSE NoEntry
  /\ page' = Show(t, "bot", req[t].answer) /\ End(t)
  /\ UNCHANGED <<accounts, store, named, worldVars, login>>

-----------------------------------------------------------------------------
(* /api/history, /api/post *)

HistoryBegin(t, b, c) ==
  /\ Begin(t, b, "history", c) /\ c \in channels_for_role(get(b))
  /\ UNCHANGED <<serverVars, worldVars, login, page>>

\* A channel without an answer is left out of the reports.
HistoryAnswer(t) ==
  /\ req[t].kind = "history" /\ req[t].answer = ""
  /\ IF mmUp THEN req' = [req EXCEPT ![t].answer = "posts"] /\ UNCHANGED page
     ELSE End(t) /\ page' = Show(t, "name", "")
  /\ UNCHANGED <<serverVars, worldVars, login>>

\* Slip: the stand-in for a name is kept too.
_author_name_kept(t) ==
  /\ req[t].kind = "history" /\ req[t].answer = "posts"
  /\ LET name == IF named # "" THEN named ELSE IF mmUp THEN "name" ELSE "somebody"
     IN named' = name /\ page' = Show(t, "name", name)
  /\ End(t)
  /\ UNCHANGED <<accounts, store, cache, worldVars, login>>

\* The name of an author is asked for until it can be had, and is kept for good; the
\* stand-in for one that cannot be had is not.
_author_name(t) ==
  /\ req[t].kind = "history" /\ req[t].answer = "posts"
  /\ LET name == IF named # "" THEN named ELSE IF mmUp THEN "name" ELSE "somebody"
     IN /\ named' = (IF name = "somebody" THEN named ELSE name)
        /\ page' = Show(t, "name", name)
  /\ End(t)
  /\ UNCHANGED <<accounts, store, cache, worldVars, login>>

PostBegin(t, b, c) ==
  /\ Begin(t, b, "post", c) /\ c \in post_channels_for_role(get(b))
  /\ UNCHANGED <<serverVars, worldVars, login, page>>

PostEnd(t) ==
  /\ req[t].kind = "post" /\ End(t)
  /\ UNCHANGED <<serverVars, worldVars, login, page>>

-----------------------------------------------------------------------------
Handle(t) == BotAnswer(t) \/ BotStore(t) \/ HistoryAnswer(t) \/ _author_name(t) \/ PostEnd(t)
Roster(b) == RosterCached(b) \/ \E t \in Thread : RosterBegin(t, b)
History(b) == \E t \in Thread, c \in Channel : HistoryBegin(t, b, c)

DashNext ==
  \/ Tick \/ Hours \/ Mattermost \/ BotAccount \/ Restart
  \/ \E b \in Browser :
       \/ \E u \in User : _do_login(b, u)
       \/ _do_logout(b) \/ Unauthorized(b) \/ Roster(b) \/ History(b)
       \/ \E t \in Thread, c \in Channel : PostBegin(t, b, c)
  \/ \E t \in Thread : Handle(t)

DashSpec == DashInit /\ [][DashNext]_dashVars

\* Threads go on, time passes, the page asks for the channels every 15 s
\* (ceo_dashboard.py:2408), and its user opens the view of the agents now and then.
Live ==
  /\ WF_dashVars(Tick) /\ \A t \in Thread : WF_dashVars(Handle(t))
  /\ \A b \in Browser : SF_dashVars(Roster(b)) /\ SF_dashVars(History(b)) /\ WF_dashVars(Unauthorized(b))
FairSpec == DashSpec /\ Live

-----------------------------------------------------------------------------
\* What a thread does for a browser it began for a login that this server has seen,
\* less than SessionTTL ago, that was not logged out, and within what the accounts it
\* has read or Mattermost gave that login; whichever cookies and accounts were
\* changed or left over meanwhile.
Entitled == \A t \in Thread : req[t] # Idle => req[t].entitled

\* An answer that the status cache gives is one that Mattermost gave less than StatusTTL
\* ago, however slow the call was and whichever thread wrote last.
StatusFresh == Cached => cache.age < StatusTTL

\* The dashboard is not restarted for ever.
RestartsEnd == <>[][~Restart]_dashVars

\* The view of the agents settles on what is so: once Mattermost answers and the bot
\* stays, no page goes on showing it inactive; once it stays deleted, none goes on
\* showing it active (ceo_dashboard.py:333-337).
StatusSettles ==
  RestartsEnd =>
    /\ <>[](mmUp /\ botOk) => <>[](\A b \in Browser : page[b].bot # "inactive")
    /\ <>[](mmUp /\ ~botOk) => <>[](\A b \in Browser : page[b].bot # "active")

\* Once Mattermost goes on answering, no page goes on showing a stand-in for a name
\* (ceo_dashboard.py:294-297).
NamesSettle == RestartsEnd /\ <>[]mmUp => <>[](\A b \in Browser : page[b].name # "somebody")
=============================================================================
