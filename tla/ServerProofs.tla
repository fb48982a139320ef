---------------------------- MODULE ServerProofs ----------------------------
(***************************************************************************)
(* The safety properties of Server, for any number of requests, browsers,  *)
(* contexts and restarts and any setting of the session's age.             *)
(***************************************************************************)
EXTENDS Server, FiniteSetTheorems, TLAPS

-----------------------------------------------------------------------------
(* The inductive invariant. *)

\* The stages a handler goes through before it has returned or panicked.
StagesOf(handler) ==
  CASE handler = "Top"                   -> {"session", "show"}
    [] handler = "Logout"                -> {"session", "destroy"}
    [] handler = "Authenticate"          -> {"Authenticate", "session", "keep"}
    [] handler \in {"Login", "Register"} -> {"form"}
    [] handler = "Proxy"                 -> {"Proxy", "read"}
    [] handler = "NoRoute"               -> {"unrouted"}
    [] handler = "OtherSlash"            -> {"slash"}
    [] OTHER                             -> {handler}

\* A request is at a stage of its handler, which its route names.
OnRoute(r) ==
  /\ ask[r] = None <=> stage[r] = "new"
  /\ ask[r] # None =>
       /\ <<ask[r].method, ask[r].handler>> \in
            Routes \cup {<<"GET", "NoRoute">>, <<"GET", "OtherSlash">>}
       /\ stage[r] \in StagesOf(ask[r].handler) \cup Over \cup
                         {"asked", "refused", "returned", "panicked"}
       /\ ask[r].handler \in {"Create", "Authenticate"} => ask[r].email # None /\ ask[r].password # None

\* Nothing is out before the handler returns and the writer knows whether anything is;
\* what went out has the cookies of the header map, which has no X-Frame-Options before
\* the request is over.
InStep(r) ==
  /\ stage[r] \in Waiting => answer[r] = None /\ header[r] = EmptyHeader
  /\ r \in Handled /\ stage[r] # "returned" => answer[r] = None
  /\ r \in Handled => (context[slot[r]].written <=> answer[r] # None)
  /\ stage[r] \in {"refused", "done"} => answer[r] # None
  /\ stage[r] \notin Over => ~header[r].frame
  /\ answer[r] # None =>
       /\ answer[r].header.csrf = header[r].csrf
       /\ answer[r].header.sid = header[r].sid
       /\ stage[r] = "refused" => answer[r].status = 400
       /\ stage[r] \notin Over =>
            /\ ~answer[r].header.frame
            /\ answer[r].body = NoBody => answer[r].status # 301

FrameOf(r) == answer[r] # None =>
  /\ answer[r].header.frame => answer[r].body = NoBody \/ answer[r].status = 404
  /\ answer[r].body = NoBody /\ answer[r].status = 301 => answer[r].header.frame

\* An answer like a success to Authenticate comes after the session is in a cookie.
LoginOf(r) == ask[r] # None /\ ask[r].handler = "Authenticate" =>
  /\ r \in Handled => answer[r] = None
  /\ stage[r] = "returned" => header[r].to = "/" /\ header[r].sid # None
  /\ answer[r] # None /\ answer[r].status = 301 =>
       answer[r].header.to = "/" /\ answer[r].header.sid # None

\* What r holds besides its context.
Holds(r) ==
  /\ tokens[r] # None <=> stage[r] \notin Waiting \cup Over
  /\ r \in bodies => stage[r] \in {"read", "returned", "done"}
  /\ r \in bodies /\ stage[r] = "returned" => answer[r] = None /\ context[slot[r]].status = 500
  /\ r \in bodies /\ stage[r] = "done" => answer[r].status = 500
  /\ stage[r] \in {"show", "keep", "destroy"} => registry[r] # None

TopOf(r) == answer[r] # None /\ answer[r].body.kind = "top" =>
  /\ answer[r].body.value = NoUser
  /\ restarts = 0 => registry[r] # None

\* The token of a request is the one it came with or one made for it, which is then in
\* the cookie and in the form.
TokenOf(r) == IF ask[r].csrf = None THEN r ELSE ask[r].csrf

TokenSent(r) ==
  /\ header[r].csrf \in {None, r}
  /\ stage[r] \notin Waiting \cup Over => tokens[r] = TokenOf(r)
  /\ stage[r] \notin Waiting \cup {"lost"} => (header[r].csrf = IF ask[r].csrf = None THEN r ELSE None)
  /\ header[r].csrf # None => ask[r] # None /\ ask[r].csrf = None
  /\ answer[r] # None /\ answer[r].body.kind = "form" => answer[r].body.value = TokenOf(r)

\* The tokens b may have.
Mine(b) == IF jar[b].csrf = b THEN {b} ELSE Issued(b)

TokensOfBrowsers ==
  /\ \A b \in Browser :
       /\ jar[b].csrf \in Mine(b) \cup {None}
       /\ page[b] \in Mine(b) \cup {None}
       /\ page[b] # None => jar[b].csrf # None
  /\ \A r \in Request : ask[r] # None =>
       LET b == ask[r].browser
       IN  /\ ask[r].csrf \in Mine(b) \cup {None}
           /\ ask[r].csrf # None => jar[b].csrf # None
           /\ jar[b].csrf = b => ask[r].csrf = b

\* Authenticate has tried to save the session.
SaveTried(r) ==
  /\ ask[r] # None /\ ask[r].handler = "Authenticate"
  /\ stage[r] \notin Waiting \cup {"Authenticate", "session", "keep"}

\* The session ids b may have: its own from before, and those made for its logins.
Owned(b) == {b} \cup {r \in Request : SaveTried(r) /\ ask[r].browser = b}

SessionsOfBrowsers ==
  \A b \in Browser :
    /\ jar[b].sid # None => jar[b].sid.id \in Owned(b)
    /\ \A r \in Request : ask[r] # None /\ ask[r].browser = b =>
         /\ ask[r].sid # None => ask[r].sid.id \in Owned(b)
         /\ header[r].sid # None =>
              \/ header[r].sid.id = None /\ header[r].sid.age < 0
              \/ header[r].sid.id \in Owned(b)

\* The session in hand is the cookie's or a new one.
SessionOf(r) == stage[r] \in {"keep", "destroy"} =>
  /\ registry[r].id = (IF ask[r].sid = None THEN None ELSE ask[r].sid.id)
  /\ registry[r].age = maxAge

\* The cookie of r had the session id and Logout has deleted it.
Leaves(r, id) ==
  /\ ask[r] # None /\ ask[r].handler = "Logout" /\ ask[r].sid # None /\ ask[r].sid.id = id
  /\ stage[r] = "returned" \/ (answer[r] # None /\ answer[r].status = 301)

\* A session that was logged out is stored only if a login with its cookie came through.
LogoutHolds ==
  \A id \in Id : store[id] # None /\ (\E r \in Request : Leaves(r, id)) =>
    \E r \in Request : SaveTried(r) /\ ask[r].sid # None /\ ask[r].sid.id = id

\* A cookie that lives in a browser, or is on its way there, has a record that lives as
\* long, or has had one.
Recorded(c) ==
  \/ store[c.id] # None /\ store[c.id].until >= c.at + c.age
  \/ \E r \in Request : /\ ask[r] # None /\ ask[r].sid # None /\ ask[r].sid.id = c.id
                         /\ ask[r].handler = "Logout"
                         /\ stage[r] \notin {"new", "asked", "session", "destroy"}

CookiesOfBrowsers ==
  /\ \A b \in Browser : jar[b].sid # None =>
       /\ jar[b].sid.at <= now /\ Lives(jar[b].sid, now)
       /\ jar[b].sid.age > 0 /\ NeverShorter(jar[b].sid) => Recorded(jar[b].sid)
  /\ \A r \in Request : stage[r] \notin Over /\ header[r].sid # None =>
       /\ stage[r] = "returned"
       /\ header[r].sid.at = now
       /\ header[r].sid.age > 0 /\ NeverShorter(header[r].sid) => Recorded(header[r].sid)

RequestInv(r) ==
  /\ OnRoute(r) /\ InStep(r) /\ FrameOf(r) /\ LoginOf(r) /\ Holds(r) /\ TopOf(r)
  /\ TokenSent(r) /\ SessionOf(r)

ServerInv ==
  /\ TypeOK /\ OwnContext
  /\ \A r \in Request : RequestInv(r)
  /\ TokensOfBrowsers /\ SessionsOfBrowsers /\ LogoutHolds /\ CookiesOfBrowsers
-----------------------------------------------------------------------------
(* Types. *)

USE DEF Moved

\* The values the actions build have their types.
LEMMA Types ==
  /\ EmptyHeader \in HeaderType
  /\ NoBody \in BodyType /\ Text \in BodyType
  /\ NewContext \in ContextType
  /\ \A t \in Token : Form(t) \in BodyType
  /\ \A i \in Id \cup {NoUser} : TopPage(i) \in BodyType
  /\ \A h \in HeaderType, b \in BodyType, w \in ContextType : Sent(w, h, b) \in AnswerType
  /\ \A w \in ContextType, n \in Nat : Noted(w, n) \in ContextType
  /\ \A w \in ContextType : Written(w) \in ContextType
BY ZenonT(40) DEF EmptyHeader, HeaderType, NoBody, Text, BodyType, NewContext, ContextType, Form, TopPage,
       Id, Token, Sent, AnswerType, Noted, Written

\* The settings of the server and its clock are integers, and an age becomes a life.
LEMMA AgesTyped ==
  ASSUME TypeOK
  PROVE  /\ now \in Int /\ maxAge \in Int /\ maxAge \in settings
         /\ \A m \in settings : m \in Int
         /\ \A m \in Int : Ttl(m) \in Int
<1>1. settings \subseteq MaxAges /\ maxAge \in settings /\ now \in 0 .. MaxNow
  BY DEF TypeOK
<1>2. \A m \in Int : Ttl(m) \in Int
  BY AgesAssumption DEF Ttl
<1> QED BY <1>1, <1>2, AgesAssumption

\* A header map with another Location or frame option has its type.
LEMMA TypesHeader ==
  /\ \A h \in HeaderType, to \in {None, "/", "/login", "other"} : [h EXCEPT !.to = to] \in HeaderType
  /\ \A h \in HeaderType, f \in BOOLEAN : [h EXCEPT !.frame = f] \in HeaderType
BY DEF HeaderType

\* A browser asks.
LEMMA TypeAsk == ASSUME TypeOK, NEW r \in Request, Ask(r) PROVE TypeOK'
BY RoutesAssumption DEF TypeOK, Ask, sessionVars, browserVars, dataVars, AskType, Waiting, Over,
   MainRoutes

\* nosurf and gin take the request, or nosurf refuses it.
LEMMA TypeServe == ASSUME TypeOK, NEW r \in Request, Serve(r), ask[r] # None PROVE TypeOK'
<1> DEFINE to == FirstStep(ask[r].handler)
<1>1. /\ ServeHTTP(r, to)
      /\ UNCHANGED <<sessionVars, browserVars, dataVars, restarts>>
  BY DEF Serve
<1>2. ask[r] \in AskType
  BY DEF TypeOK
<1>3. to \in Handlers \cup {"session", "form", "unrouted", "slash"}
  BY <1>2 DEF AskType, FirstStep, Handlers
<1>4. /\ header' \in [Request -> HeaderType]
      /\ tokens' \in [Request -> Token \cup {None}]
      /\ ask' = ask
  <2>1. r \in Token /\ (ask[r].csrf # None => ask[r].csrf \in Token)
    BY <1>2 DEF Token, AskType
  <2>2. header \in [Request -> HeaderType] /\ tokens \in [Request -> Token \cup {None}]
    BY DEF TypeOK
  <2>3. [header[r] EXCEPT !.csrf = r] \in HeaderType
    BY <2>1, <2>2 DEF HeaderType
  <2>4. header' \in [Request -> HeaderType]
    BY <1>1, <2>2, <2>3 DEF ServeHTTP, GetToken, setTokenCookie
  <2>5. tokens' \in [Request -> Token \cup {None}]
    BY <1>1, <2>1, <2>2 DEF ServeHTTP, GetToken, setTokenCookie
  <2> QED BY <1>1, <2>4, <2>5 DEF ServeHTTP
<1>5. /\ stage' \in [Request -> Waiting \cup Over \cup Handlers \cup
           {"refused", "session", "show", "form", "keep", "destroy", "read",
            "unrouted", "slash", "returned", "panicked"}]
      /\ context' \in [Context -> ContextType]
      /\ answer' \in [Request -> AnswerType \cup {None}]
      /\ slot' \in [Request -> Context \cup {None}]
      /\ ginPool' \subseteq Context
  <2>1. CASE Dispatch(r, to)
    <3>1. \A c \in Context : Reset(context[c], r) \in ContextType
      BY ZenonT(40) DEF Reset, NewContext, ContextType
    <3> HIDE DEF to
    <3> QED BY <2>1, <1>3, <3>1 DEF Dispatch, TypeOK, Unheld
  <2>2. CASE Refuse(r)
    <3>1. [status |-> 400, header |-> header'[r], body |-> NoBody] \in AnswerType
      BY <1>4, Types DEF AnswerType
    <3> QED BY <2>2, <3>1 DEF Refuse, TypeOK
  <2> QED BY <1>1, <2>1, <2>2 DEF ServeHTTP
<1> HIDE DEF to
<1> QED BY <1>1, <1>4, <1>5 DEF TypeOK, sessionVars, browserVars, dataVars

\* A handler writes a body.
LEMMA TypeWrite ==
  ASSUME TypeOK, NEW r \in Request, slot[r] # None,
         NEW h \in HeaderType, NEW code \in Nat, NEW body \in BodyType,
         Write(r, h, code, body)
  PROVE  context' \in [Context -> ContextType] /\ answer' \in [Request -> AnswerType \cup {None}]
BY Types DEF TypeOK, Write, Writer

\* A handler returns with a body.
LEMMA TypeAnswers ==
  ASSUME TypeOK, NEW r \in Request, slot[r] # None, NEW code \in Nat, NEW body \in BodyType,
         Answers(r, code, body), UNCHANGED <<sessionVars, browserVars, users, found, restarts>>,
         bodies' \subseteq bodies
  PROVE  TypeOK'
<1>1. /\ header[r] \in HeaderType
      /\ Write(r, header[r], code, body)
  BY DEF Answers, TypeOK
<1>2. context' \in [Context -> ContextType] /\ answer' \in [Request -> AnswerType \cup {None}]
  BY <1>1, TypeWrite
<1> QED BY <1>2 DEF TypeOK, Answers, sessionVars, browserVars, dataVars

\* The top page.
LEMMA TypeTop == ASSUME TypeOK, NEW r \in Request, Top(r), slot[r] # None PROVE TypeOK'
<1>1. PICK who \in Shown(r) : Answers(r, 200, TopPage(who))
  BY DEF Top
<1>2. TopPage(who) \in BodyType
  BY Types DEF Shown
<1> QED BY <1>1, <1>2, TypeAnswers DEF Top, dataVars

\* The forms.
LEMMA TypeShowForm ==
  ASSUME TypeOK, NEW r \in Request, ShowForm(r), slot[r] # None, tokens[r] # None PROVE TypeOK'
<1>1. Form(tokens[r]) \in BodyType
  BY Types DEF TypeOK
<1> QED BY <1>1, TypeAnswers DEF ShowForm, dataVars

\* A file, or an upstream body.
LEMMA TypeFile == ASSUME TypeOK, NEW r \in Request, File(r), slot[r] # None PROVE TypeOK'
<1>1. ASSUME NEW code \in {200, 404}, Answers(r, code, Text) PROVE TypeOK'
  BY <1>1, Types, TypeAnswers DEF File, dataVars
<1>2. ASSUME context' = [context EXCEPT ![slot[r]] = Noted(@, 304)], Moved(r, "returned"),
             UNCHANGED <<ask, tokens, ginPool, slot, header, answer>>
      PROVE  TypeOK'
  BY <1>2, Types DEF File, TypeOK, sessionVars, browserVars, dataVars
<1> QED BY <1>1, <1>2 DEF File

\* AbortWithError.
LEMMA TypeAbort ==
  ASSUME TypeOK, NEW r \in Request, slot[r] # None, NEW code \in Nat, AbortWithError(r, code)
  PROVE  context' \in [Context -> ContextType]
<1>1. \A w \in ContextType : Aborted(w, code, r) \in ContextType
  BY DEF ContextType, Aborted
<1>2. context \in [Context -> ContextType] /\ context[slot[r]] \in ContextType
  BY DEF TypeOK
<1> QED BY <1>1, <1>2 DEF AbortWithError

\* The proxy asks the host.
LEMMA TypeFetch == ASSUME TypeOK, NEW r \in Request, Fetch(r), slot[r] # None PROVE TypeOK'
<1>1. context' \in [Context -> ContextType]
  BY TypeAbort DEF Fetch, TypeOK
<1> QED BY <1>1 DEF TypeOK, Fetch, AbortWithError, sessionVars, browserVars

\* The proxy copies the body.
LEMMA TypeRead == ASSUME TypeOK, NEW r \in Request, Read(r), slot[r] # None PROVE TypeOK'
<1>1. ASSUME Answers(r, 200, Text), bodies' = bodies \ {r} PROVE TypeOK'
  BY <1>1, Types, TypeAnswers DEF Read
<1>2. ASSUME AbortWithError(r, 500), Moved(r, "returned"),
             UNCHANGED <<ask, tokens, ginPool, slot, bodies>>
      PROVE  TypeOK'
  <2>1. context' \in [Context -> ContextType]
    BY <1>2, TypeAbort
  <2> QED BY <1>2, <2>1 DEF Read, TypeOK, AbortWithError, sessionVars, browserVars
<1> QED BY <1>1, <1>2 DEF Read

\* A redirect.
LEMMA TypeRedirect ==
  ASSUME TypeOK, NEW r \in Request, slot[r] # None, NEW h \in HeaderType, Redirect(r, h)
  PROVE  /\ context' \in [Context -> ContextType]
         /\ answer' \in [Request -> AnswerType \cup {None}]
         /\ header' \in [Request -> HeaderType]
<1>1. header' \in [Request -> HeaderType]
  BY DEF Redirect, TypeOK
<1>2. CASE ask[r].method = "GET"
  BY <1>1, <1>2, TypeWrite, Types DEF Redirect
<1>3. CASE ask[r].method # "GET"
  BY <1>1, <1>3, Types, SMTT(30) DEF Redirect, TypeOK
<1> QED BY <1>2, <1>3

\* A user is created.
LEMMA TypeCreate ==
  ASSUME TypeOK, NEW r \in Request, Create(r), slot[r] # None, OnRoute(r) PROVE TypeOK'
<1>1. [header[r] EXCEPT !.to = "/login"] \in HeaderType
  BY TypesHeader DEF TypeOK
<1>2. /\ context' \in [Context -> ContextType]
      /\ answer' \in [Request -> AnswerType \cup {None}]
      /\ header' \in [Request -> HeaderType]
  BY <1>1, TypeRedirect DEF Create
<1>3. ask[r] \in AskType /\ ask[r].handler = "Create"
  <2>1. ask[r] \in AskType /\ stage[r] = "Create"
    BY DEF Create, OnRoute, TypeOK
  <2> QED BY <2>1 DEF OnRoute, StagesOf, AskType, Handlers, Over
<1>4. [email |-> ask[r].email, password |-> ask[r].password] \in RowType
  <2>1. ask[r].email \in Email /\ ask[r].password \in Password
    <3>1. ask[r].email \in Email \cup {None} /\ ask[r].password \in Password \cup {None}
      BY <1>3 DEF AskType
    <3>2. ask[r].email # None /\ ask[r].password # None
      BY <1>3, AbsenceAssumption DEF OnRoute
    <3> QED BY <3>1, <3>2
  <2> QED BY <2>1 DEF RowType
<1>5. users' \in [Id -> RowType \cup {None}]
  <2>1. users' \in Insert(r) /\ users \in [Id -> RowType \cup {None}] /\ r \in Id
    BY DEF Create, TypeOK, Id
  <2> QED BY <1>4, <2>1 DEF Insert
<1> QED BY <1>2, <1>5 DEF TypeOK, Create, sessionVars, browserVars

\* Authenticate checks the password.
LEMMA TypeCheckPassword ==
  ASSUME TypeOK, NEW r \in Request, CheckPassword(r), slot[r] # None PROVE TypeOK'
<1>1. [header[r] EXCEPT !.to = "/login"] \in HeaderType
  BY TypesHeader DEF TypeOK
<1>2. /\ context' \in [Context -> ContextType]
      /\ answer' \in [Request -> AnswerType \cup {None}]
      /\ header' \in [Request -> HeaderType]
  BY <1>1, TypeRedirect DEF CheckPassword, TypeOK
<1>3. found' \in [Request -> Id \cup {NoUser, None}]
  <2>1. PICK result \in Auth(r) : found' = [found EXCEPT ![r] = result[1]]
    BY DEF CheckPassword
  <2>2. result[1] \in Id \cup {NoUser}
    <3>1. CASE result = <<NoUser, FALSE>>
      BY <3>1
    <3>2. CASE result # <<NoUser, FALSE>>
      <4>1. PICK i \in Id : result = <<i, users[i].password = ask[r].password>>
        BY <3>2 DEF Auth
      <4>2. result[1] = i
        BY <4>1, Zenon
      <4> QED BY <4>2
    <3> QED BY <3>1, <3>2
  <2>3. found \in [Request -> Id \cup {NoUser, None}]
    BY DEF TypeOK
  <2> QED BY <2>1, <2>2, <2>3
<1> QED BY <1>2, <1>3 DEF TypeOK, CheckPassword, sessionVars, browserVars

\* The session a cookie gives.
LEMMA TypeNew ==
  ASSUME TypeOK, NEW cookie \in CookieType \cup {None}, cookie # None => cookie.id \in Id,
         NEW s \in New(cookie)
  PROVE  s \in SessionType
<1>1. maxAge \in Int
  BY AgesAssumption DEF TypeOK
<1>2. NewSession \in SessionType /\ [NewSession EXCEPT !.bad = TRUE] \in SessionType
  BY <1>1 DEF NewSession, SessionType
<1>3. ASSUME cookie # None, NEW v \in {{}} \cup {store[i].values : i \in {i \in {cookie.id} : store[i] # None}}
      PROVE  [NewSession EXCEPT !.id = cookie.id, !.values = v] \in SessionType
  <2>1. v \in SUBSET ({KeyWritten} \X (Id \cup {NoUser, None}))
    BY <1>3 DEF TypeOK, RecordType
  <2> QED BY <1>2, <1>3, <2>1 DEF SessionType
<1> QED BY <1>2, <1>3 DEF New

\* The session is loaded.
LEMMA TypeLoadSession ==
  ASSUME TypeOK, NEW r \in Request, LoadSession(r), ask[r] # None, OnRoute(r),
         ask[r].sid # None => ask[r].sid.id \in Id
  PROVE  TypeOK'
<1>1. ask[r] \in AskType
  BY DEF TypeOK
<1>2. ask[r].sid \in CookieType \cup {None}
  BY <1>1 DEF AskType
<1>3. PICK s \in New(ask[r].sid) :
        /\ registry' = [registry EXCEPT ![r] = s]
        /\ Moved(r, IF s.bad THEN "panicked" ELSE AfterSession(ask[r].handler))
  BY DEF LoadSession, GetSession
<1>4. s \in SessionType
  BY <1>2, TypeNew
<1>5. AfterSession(ask[r].handler) \in {"show", "keep", "destroy"}
  BY <1>1 DEF OnRoute, LoadSession, AfterSession, StagesOf, AskType, Handlers, Over
<1> QED BY <1>3, <1>4, <1>5
        DEF TypeOK, LoadSession, GetSession, browserVars, dataVars

\* What saving a session leaves: s is what the handler made of the session in hand.
LEMMA TypeSave ==
  ASSUME TypeOK, NEW r \in Request, NEW s \in SessionType,
         NEW onward \in BOOLEAN, Save(r, s, onward)
  PROVE  /\ registry' \in [Request -> SessionType \cup {None}]
         /\ store' \in [Id -> RecordType \cup {None}]
         /\ \A i \in Id : store'[i] # None => store'[i].until > now
         /\ maxAge' = maxAge /\ settings' = settings /\ now' = now
<1> DEFINE kept == IF s.id = None /\ s.age >= 0 THEN [s EXCEPT !.id = NewId(r)] ELSE s
           after == IF s.age < 0 THEN Deleted(s) ELSE Saved(kept)
<1>1. kept \in SessionType
  BY DEF SessionType, NewId, Id
<1>2. registry' = [registry EXCEPT ![r] = kept] /\ store' \in {store, after}
      /\ maxAge' = maxAge /\ settings' = settings /\ now' = now
  BY DEF Save
<1>3. store \in [Id -> RecordType \cup {None}] /\ \A i \in Id : store[i] # None => store[i].until > now
  BY DEF TypeOK
<1>4. now \in Int /\ registry \in [Request -> SessionType \cup {None}]
  BY DEF TypeOK
<1>5. ASSUME s.age < 0
      PROVE  /\ store' \in [Id -> RecordType \cup {None}]
             /\ \A i \in Id : store'[i] # None => store'[i].until > now
  <2>1. after = [i \in Id |-> IF i = s.id THEN None ELSE store[i]]
    BY <1>5 DEF Deleted
  <2> HIDE DEF after, kept
  <2> QED BY <1>2, <1>3, <2>1
<1>6. ASSUME ~ s.age < 0
      PROVE  /\ store' \in [Id -> RecordType \cup {None}]
             /\ \A i \in Id : store'[i] # None => store'[i].until > now
  <2> DEFINE record == [values |-> kept.values, until |-> now + Ttl(kept.age)]
  <2>1. kept.age = s.age /\ s.age \in Int
    BY DEF SessionType
  <2>2. Ttl(kept.age) \in Int /\ Ttl(kept.age) > 0
    BY <1>6, <2>1, AgesAssumption DEF Ttl
  <2>3. record \in RecordType /\ record.until > now
    BY <1>1, <1>4, <2>2 DEF RecordType, SessionType
  <2>4. after = [store EXCEPT ![kept.id] = record]
    BY <1>6 DEF Saved
  <2> HIDE DEF record, kept, after
  <2>5. after \in [Id -> RecordType \cup {None}] /\ \A i \in Id : after[i] # None => after[i].until > now
    BY <1>3, <2>3, <2>4
  <2> QED BY <1>2, <1>3, <2>5
<1>7. registry' \in [Request -> SessionType \cup {None}]
  <2> HIDE DEF kept, after
  <2> QED BY <1>1, <1>2, <1>4
<1>8. s.age \in Int
  BY DEF SessionType
<1> QED BY <1>2, <1>5, <1>6, <1>7

\* The session cookie has its type.
LEMMA TypeSetCookie ==
  ASSUME TypeOK, NEW r \in Request, NEW s \in SessionType
  PROVE  [SetCookie(r, s) EXCEPT !.to = "/"] \in HeaderType
<1>1. header[r] \in HeaderType /\ now \in Int
  BY DEF TypeOK
<1>2. \A id \in Id \cup {None} : Cookie(id, s.age) \in CookieType
  BY <1>1 DEF Cookie, CookieType, SessionType
<1>3. (IF s.age < 0 THEN None ELSE IF s.id = None THEN NewId(r) ELSE s.id) \in Id \cup {None}
  BY DEF SessionType, NewId, Id
<1>4. \A c \in CookieType : [[header[r] EXCEPT !.sid = c] EXCEPT !.to = "/"] \in HeaderType
  BY <1>1 DEF HeaderType
<1> QED BY <1>2, <1>3, <1>4 DEF SetCookie

\* A session is saved or deleted, and the handler goes on or panics.
LEMMA TypeSaves ==
  ASSUME TypeOK, NEW r \in Request, slot[r] # None, NEW s \in SessionType,
         Save(r, s, Redirects(r, s)),
         UNCHANGED <<ask, tokens, browserVars, dataVars, restarts>>
  PROVE  TypeOK'
<1>1. Redirects(r, s) \in BOOLEAN
  BY DEF Redirects, Redirect
<1>2. /\ registry' \in [Request -> SessionType \cup {None}]
      /\ store' \in [Id -> RecordType \cup {None}]
      /\ \A i \in Id : store'[i] # None => store'[i].until > now
      /\ maxAge' = maxAge /\ settings' = settings /\ now' = now
  BY <1>1, TypeSave
<1>3. /\ context' \in [Context -> ContextType]
      /\ answer' \in [Request -> AnswerType \cup {None}]
      /\ header' \in [Request -> HeaderType]
      /\ ginPool' = ginPool /\ slot' = slot
      /\ stage' = [stage EXCEPT ![r] = "returned"] \/ stage' = [stage EXCEPT ![r] = "panicked"]
  <2>1. CASE Redirects(r, s)
    BY <2>1, TypeSetCookie, TypeRedirect DEF Redirects
  <2>2. CASE Moved(r, "panicked") /\ UNCHANGED <<ginPool, slot, context, header, answer>>
    BY <2>2 DEF TypeOK
  <2> QED BY <2>1, <2>2 DEF Save
<1> QED BY <1>2, <1>3 DEF TypeOK, browserVars, dataVars

\* The session keeps the user.
LEMMA TypeKeepUser ==
  ASSUME TypeOK, NEW r \in Request, KeepUser(r), slot[r] # None, registry[r] # None
  PROVE  TypeOK'
<1> DEFINE s == [registry[r] EXCEPT !.values = SetValue(@, KeyWritten, found[r])]
<1>1. registry[r] \in SessionType /\ found[r] \in Id \cup {NoUser, None}
  BY DEF TypeOK
<1>2. s \in SessionType
  BY <1>1 DEF SessionType, SetValue
<1>3. Save(r, s, Redirects(r, s)) /\ UNCHANGED <<ask, tokens, browserVars, dataVars, restarts>>
  BY DEF KeepUser
<1> HIDE DEF s
<1> QED BY <1>2, <1>3, TypeSaves

\* The session is destroyed.
LEMMA TypeLogout ==
  ASSUME TypeOK, NEW r \in Request, Logout(r), slot[r] # None, registry[r] # None
  PROVE  TypeOK'
<1> DEFINE s == [registry[r] EXCEPT !.age = -1]
<1>1. registry[r] \in SessionType
  BY DEF TypeOK
<1>2. s \in SessionType
  BY <1>1 DEF SessionType
<1>3. Save(r, s, Redirects(r, s)) /\ UNCHANGED <<ask, tokens, browserVars, dataVars, restarts>>
  BY DEF Logout
<1> HIDE DEF s
<1> QED BY <1>2, <1>3, TypeSaves

\* The request is over, and its answer reaches the browser or is lost.
LEMMA TypeEnds ==
  ASSUME TypeOK, NEW r \in Request, Ends(r), stage[r] # "refused" => slot[r] # None
  PROVE  /\ ask' = ask
         /\ stage' = [stage EXCEPT ![r] = "done"]
         /\ tokens' = [tokens EXCEPT ![r] = None]
         /\ ginPool' \subseteq Context
         /\ slot' \in [Request -> Context \cup {None}]
         /\ context' = context
         /\ header' \in [Request -> HeaderType]
         /\ answer' \in [Request -> AnswerType \cup {None}]
<1>1. /\ ask' = ask /\ context' = context
      /\ stage' = [stage EXCEPT ![r] = "done"]
      /\ tokens' = [tokens EXCEPT ![r] = None]
  BY DEF Ends, Return, NoRoute, OtherSlash, Recover, Refused, GiveBack, Finish, ctxClear
<1>2. /\ ginPool' \subseteq Context
      /\ slot' \in [Request -> Context \cup {None}]
  <2>1. slot \in [Request -> Context \cup {None}] /\ ginPool \subseteq Context
    BY DEF TypeOK
  <2>2. CASE stage[r] = "refused"
    BY <2>1, <2>2 DEF Ends, Return, NoRoute, OtherSlash, Recover, Refused
  <2>3. CASE stage[r] # "refused"
    <3>1. GiveBack(r)
      BY <2>3 DEF Ends, Return, NoRoute, OtherSlash, Recover, Refused
    <3> QED BY <2>1, <2>3, <3>1 DEF GiveBack
  <2> QED BY <2>2, <2>3
<1>3. header' \in [Request -> HeaderType]
  <2>1. header \in [Request -> HeaderType]
    BY DEF TypeOK
  <2>2. [header[r] EXCEPT !.frame = TRUE] \in HeaderType /\ [header[r] EXCEPT !.to = "other"] \in HeaderType
    BY <2>1, TypesHeader
  <2>3. \/ header' = [header EXCEPT ![r] = [header[r] EXCEPT !.frame = TRUE]]
        \/ header' = [header EXCEPT ![r] = [header[r] EXCEPT !.to = "other"]]
        \/ header' = header
    BY <2>1 DEF Ends, Return, NoRoute, OtherSlash, Recover, Refused
  <2> QED BY <2>1, <2>2, <2>3
<1>4. answer' \in [Request -> AnswerType \cup {None}]
  <2>1. answer \in [Request -> AnswerType \cup {None}] /\ header'[r] \in HeaderType
    BY <1>3 DEF TypeOK
  <2>2. ASSUME NEW code \in Nat, slot[r] # None, NEW body \in BodyType, NEW w \in ContextType,
               Flush(r, w, header'[r], body, answer)
        PROVE  answer' \in [Request -> AnswerType \cup {None}]
    <3>1. Sent(w, header'[r], body) \in AnswerType
      BY <2>1, Types
    <3> QED BY <2>1, <2>2, <3>1 DEF Flush
  <2>3. stage[r] # "refused" =>
          Writer(r) \in ContextType /\ \A code \in Nat : Noted(Writer(r), code) \in ContextType
    BY Types DEF Writer, TypeOK
  <2>4. CASE Return(r)
    BY <2>2, <2>3, <2>4, Types DEF Return, noFrame
  <2>5. CASE NoRoute(r)
    BY <2>2, <2>3, <2>5, Types DEF NoRoute
  <2>6. CASE OtherSlash(r)
    BY <2>2, <2>3, <2>6, Types DEF OtherSlash
  <2>7. CASE Recover(r)
    BY <2>1, <2>2, <2>3, <2>7, Types DEF Recover
  <2>8. CASE Refused(r)
    BY <2>1, <2>8 DEF Refused
  <2> QED BY <2>4, <2>5, <2>6, <2>7, <2>8 DEF Ends
<1> QED BY <1>1, <1>2, <1>3, <1>4

\* The cookies of the browser and the form it shows.
LEMMA TypeDeliver ==
  ASSUME TypeOK, NEW r \in Request, Deliver(r), ask[r] # None,
         stage[r] # "refused" => slot[r] # None,
         answer'[r] # None /\ answer'[r].body.kind = "form" => answer'[r].body.value \in Token
  PROVE  TypeOK'
<1>1. /\ ask' = ask
      /\ stage' = [stage EXCEPT ![r] = "done"]
      /\ tokens' = [tokens EXCEPT ![r] = None]
      /\ ginPool' \subseteq Context
      /\ slot' \in [Request -> Context \cup {None}]
      /\ context' = context
      /\ header' \in [Request -> HeaderType]
      /\ answer' \in [Request -> AnswerType \cup {None}]
  BY TypeEnds DEF Deliver
<1>2. /\ jar' \in [Browser -> [csrf : Token \cup {None}, sid : CookieType \cup {None}]]
      /\ page' \in [Browser -> Token \cup {None}]
  <2>1. /\ jar \in [Browser -> [csrf : Token \cup {None}, sid : CookieType \cup {None}]]
        /\ page \in [Browser -> Token \cup {None}]
        /\ ask[r].browser \in Browser
    BY DEF TypeOK, AskType
  <2>2. CASE UNCHANGED browserVars
    BY <2>1, <2>2 DEF browserVars
  <2>3. CASE ~ UNCHANGED browserVars
    <3> DEFINE b == ask[r].browser
    <3>1. /\ answer'[r] # None
          /\ jar' = [jar EXCEPT ![b] = Received(jar[b], answer'[r].header)]
          /\ page' = [page EXCEPT ![b] =
                        IF answer'[r].body.kind = "form" THEN answer'[r].body.value ELSE page[b]]
      BY <2>1, <2>3 DEF Deliver
    <3>2. answer'[r].header \in HeaderType
      BY <1>1, <3>1 DEF AnswerType
    <3>3. Received(jar[b], answer'[r].header) \in [csrf : Token \cup {None}, sid : CookieType \cup {None}]
      BY <2>1, <3>2 DEF Received, HeaderType
    <3>4. (IF answer'[r].body.kind = "form" THEN answer'[r].body.value ELSE page[b]) \in Token \cup {None}
      BY <2>1, <3>1
    <3> QED BY <2>1, <3>1, <3>3, <3>4
  <2> QED BY <2>2, <2>3
<1>3. /\ stage' \in [Request -> Waiting \cup Over \cup Handlers \cup
             {"refused", "session", "show", "form", "keep", "destroy", "read",
              "unrouted", "slash", "returned", "panicked"}]
      /\ tokens' \in [Request -> Token \cup {None}]
  BY <1>1 DEF TypeOK, Over
<1>4. UNCHANGED <<sessionVars, dataVars, restarts>>
  BY DEF Deliver
<1> QED BY <1>1, <1>2, <1>3, <1>4 DEF TypeOK, sessionVars, dataVars

\* Time passes.
LEMMA TypeTick == ASSUME TypeOK, Tick PROVE TypeOK'
<1>1. now' \in 0 .. MaxNow /\ now' = now + 1
  BY AgesAssumption DEF TypeOK, Tick
<1>2. /\ store' \in [Id -> RecordType \cup {None}]
      /\ \A i \in Id : store'[i] # None => store'[i].until > now'
  <2>1. store \in [Id -> RecordType \cup {None}] /\ store' = Passed(now') /\ now' \in Int
    BY <1>1 DEF TypeOK, Tick
  <2>2. \A i \in Id : store'[i] = IF store[i] # None /\ store[i].until <= now' THEN None ELSE store[i]
    BY <2>1 DEF Passed
  <2>3. \A i \in Id : store[i] # None => store[i].until \in Int
    BY <2>1 DEF RecordType
  <2> QED BY <2>1, <2>2, <2>3 DEF Passed
<1>3. jar' \in [Browser -> [csrf : Token \cup {None}, sid : CookieType \cup {None}]]
  BY DEF TypeOK, Tick
<1> QED BY <1>1, <1>2, <1>3 DEF TypeOK, Tick, httpVars, dataVars

\* The process dies.
LEMMA TypeRestart == ASSUME TypeOK, Restart PROVE TypeOK'
BY Types DEF TypeOK, Restart, HttpCrash, SessionCrash, browserVars, Waiting, Over

\* The initial states.
LEMMA TypeInit == ASSUME Init PROVE TypeOK
<1>1. /\ stage \in [Request -> Waiting \cup Over \cup Handlers \cup
           {"refused", "session", "show", "form", "keep", "destroy", "read",
            "unrouted", "slash", "returned", "panicked"}]
      /\ tokens \in [Request -> Token \cup {None}]
      /\ slot \in [Request -> Context \cup {None}]
      /\ ask \in [Request -> AskType \cup {None}]
      /\ ginPool \subseteq Context
      /\ context \in [Context -> ContextType]
      /\ header \in [Request -> HeaderType]
      /\ answer \in [Request -> AnswerType \cup {None}]
  BY Types DEF Init, HttpInit, Waiting
<1>2. /\ maxAge \in MaxAges /\ maxAge \in Int /\ now = 1
      /\ registry \in [Request -> SessionType \cup {None}]
      /\ found \in [Request -> Id \cup {NoUser, None}]
      /\ bodies = {} /\ restarts = 0
  BY AgesAssumption DEF Init
<1>a. settings = {maxAge}
  BY DEF Init
<1>3. PICK known \in SUBSET Browser, rows \in SUBSET Browser, e \in Email, p \in Password,
           cookie \in [id : {None}, at : {0, 1}, age : {maxAge}] :
        /\ rows \subseteq known /\ Cardinality(rows) = (IF known = {} THEN 0 ELSE 1)
        /\ known # {} => maxAge >= 0 /\ Lives(cookie, now)
        /\ jar = [b \in Browser |->
                    IF b \in known THEN [csrf |-> b, sid |-> [cookie EXCEPT !.id = b]]
                                   ELSE [csrf |-> None, sid |-> None]]
        /\ page = [b \in Browser |-> IF b \in known THEN b ELSE None]
        /\ users = [i \in Id |-> IF i \in rows THEN [email |-> e, password |-> p] ELSE None]
        /\ store = [i \in Id |->
                      IF i \in known /\ cookie.at + Ttl(maxAge) > now
                      THEN [values |-> {<<"userId", x>> : x \in rows}, until |-> cookie.at + Ttl(maxAge)]
                      ELSE None]
  BY Zenon DEF Init
<1>4. cookie.at \in {0, 1} /\ Ttl(maxAge) \in Int
  BY <1>2, AgesAssumption DEF Ttl
<1>5. jar \in [Browser -> [csrf : Token \cup {None}, sid : CookieType \cup {None}]]
  <2>1. \A b \in Browser : [cookie EXCEPT !.id = b] \in CookieType
    BY <1>2 DEF CookieType, Id
  <2> QED BY <1>3, <2>1 DEF Token
<1>6. page \in [Browser -> Token \cup {None}]
  BY <1>3 DEF Token
<1>7. users \in [Id -> RowType \cup {None}]
  BY <1>3 DEF RowType
<1>8. /\ store \in [Id -> RecordType \cup {None}]
      /\ \A i \in Id : store[i] # None => store[i].until > now
  <2> DEFINE record == [values |-> {<<"userId", x>> : x \in rows}, until |-> cookie.at + Ttl(maxAge)]
  <2>1. record \in RecordType
    BY <1>4 DEF RecordType, KeyWritten, Id
  <2>2. record.until = cookie.at + Ttl(maxAge)
    OBVIOUS
  <2>3. store = [i \in Id |-> IF i \in known /\ cookie.at + Ttl(maxAge) > now THEN record ELSE None]
    BY <1>3
  <2> HIDE DEF record
  <2> QED BY <2>1, <2>2, <2>3
<1> QED BY <1>1, <1>2, <1>a, <1>5, <1>6, <1>7, <1>8, AgesAssumption DEF TypeOK

-----------------------------------------------------------------------------
(* Contexts. *)

\* The step of a request leaves the others alone.
Others(r) ==
  /\ \A q \in Request \ {r} :
       /\ stage'[q] = stage[q] /\ ask'[q] = ask[q] /\ tokens'[q] = tokens[q]
       /\ slot'[q] = slot[q] /\ header'[q] = header[q] /\ answer'[q] = answer[q]
       /\ registry'[q] = registry[q] /\ found'[q] = found[q] /\ (q \in bodies' <=> q \in bodies)
  /\ \A c \in Context : c # slot[r] /\ c # slot'[r] => context'[c] = context[c]
  /\ restarts' = restarts /\ maxAge' = maxAge /\ settings' = settings /\ now' = now

RequestStep(r) == Ask(r) \/ Serve(r) \/ Handle(r) \/ Deliver(r)

\* A request touches its own entries and its own context.
LEMMA OthersStay == ASSUME TypeOK, NEW r \in Request, RequestStep(r) PROVE Others(r)
<1> USE DEF TypeOK, Others, httpVars, sessionVars, browserVars, dataVars
<1>1. CASE Ask(r)
  BY <1>1 DEF Ask
<1>2. CASE Serve(r)
  BY <1>2 DEF Serve, ServeHTTP, GetToken, setTokenCookie, Dispatch, Refuse
<1>3. ASSUME NEW code, NEW body, Answers(r, code, body), UNCHANGED <<sessionVars, users, found, restarts>>,
             bodies' \in {bodies, bodies \ {r}}
      PROVE  Others(r)
  BY <1>3 DEF Answers, Write
<1>4. CASE LoadSession(r)
  BY <1>4 DEF LoadSession, GetSession
<1>5. CASE Top(r)
  BY <1>3, <1>5 DEF Top
<1>6. CASE ShowForm(r)
  BY <1>3, <1>6 DEF ShowForm
<1>7. CASE Create(r)
  BY <1>7 DEF Create, Redirect, Write
<1>8. CASE CheckPassword(r)
  BY <1>8 DEF CheckPassword, Redirect, Write
<1>9. ASSUME NEW s, Save(r, s, Redirects(r, s)), UNCHANGED <<ask, tokens, browserVars, dataVars, restarts>>
      PROVE  Others(r)
  BY <1>9 DEF Save, Redirects, Redirect, Write
<1>10. CASE KeepUser(r)
  BY <1>9, <1>10 DEF KeepUser
<1>11. CASE Logout(r)
  BY <1>9, <1>11 DEF Logout
<1>12. CASE Fetch(r)
  BY <1>12 DEF Fetch, AbortWithError
<1>13. CASE Read(r)
  BY <1>3, <1>13 DEF Read, AbortWithError
<1>14. CASE File(r)
  BY <1>3, <1>14 DEF File
<1>15. CASE Deliver(r)
  BY <1>15 DEF Deliver, Ends, Return, NoRoute, OtherSlash, Recover, Refused, Flush, GiveBack, Finish,
            ctxClear, noFrame
<1> QED BY <1>1, <1>2, <1>4, <1>5, <1>6, <1>7, <1>8, <1>10, <1>11, <1>12, <1>13, <1>14, <1>15
        DEF RequestStep, Handle

\* The contexts stay apart if the step of r keeps its own, takes one that nobody has, or
\* gives it back.
LEMMA OwnStep ==
  ASSUME TypeOK, TypeOK', OwnContext, NEW r \in Request, Others(r),
         ginPool' \subseteq ginPool \cup {slot[r]},
         slot'[r] \in {slot[r], None} \cup Unheld,
         r \in Handled' <=> slot'[r] # None,
         slot'[r] # None => /\ slot'[r] \notin ginPool'
                            /\ context'[slot'[r]].owner = r
                            /\ context'[slot'[r]].errors \subseteq {r}
  PROVE  OwnContext'
<1>1. ASSUME NEW q \in Request, q # r
      PROVE  /\ q \in Handled' <=> slot'[q] # None
             /\ q \in Handled' => /\ slot'[q] \notin ginPool'
                                  /\ context'[slot'[q]].owner = q
                                  /\ context'[slot'[q]].errors \subseteq {q}
  <2>1. slot'[q] = slot[q] /\ (q \in Handled' <=> q \in Handled)
    BY <1>1 DEF Others, Handled
  <2>2. CASE q \in Handled
    <3>1. slot[q] # None /\ slot[q] \notin ginPool /\ context[slot[q]].owner = q
          /\ context[slot[q]].errors \subseteq {q} /\ slot[q] \in Context
      BY <2>2 DEF OwnContext, TypeOK
    <3>2. slot[q] # slot[r]
      BY <1>1, <3>1 DEF OwnContext
    <3>3. slot[q] # slot'[r]
      BY <3>1, <3>2 DEF Unheld
    <3>4. context'[slot[q]] = context[slot[q]]
      BY <3>1, <3>2, <3>3 DEF Others
    <3>5. slot[q] \notin ginPool'
      BY <3>1, <3>2
    <3>6. q \in Handled' /\ slot'[q] # None
      BY <2>1, <2>2, <3>1
    <3> QED BY <2>1, <3>1, <3>4, <3>5, <3>6
  <2>3. CASE q \notin Handled
    BY <2>1, <2>3 DEF OwnContext
  <2> QED BY <2>2, <2>3
<1>2. r \in Handled' => slot'[r] # None
  OBVIOUS
<1>3. \A q \in Request : q \in Handled' <=> slot'[q] # None
  BY <1>1
<1>4. \A q \in Handled' : /\ slot'[q] \notin ginPool'
                          /\ context'[slot'[q]].owner = q
                          /\ context'[slot'[q]].errors \subseteq {q}
  BY <1>1, <1>2 DEF Handled
<1> QED BY <1>3, <1>4 DEF OwnContext

\* The step of r changes nothing the invariant says of another request.
LEMMA OtherRequests ==
  ASSUME TypeOK, OwnContext, NEW r \in Request, Others(r), slot'[r] \in {slot[r], None} \cup Unheld,
         NEW q \in Request, q # r, RequestInv(q)
  PROVE  RequestInv(q)'
<1>1. /\ stage'[q] = stage[q] /\ ask'[q] = ask[q] /\ tokens'[q] = tokens[q]
      /\ slot'[q] = slot[q] /\ header'[q] = header[q] /\ answer'[q] = answer[q]
      /\ registry'[q] = registry[q] /\ (q \in bodies' <=> q \in bodies)
      /\ restarts' = restarts /\ maxAge' = maxAge
  BY DEF Others
<1>2. q \in Handled' <=> q \in Handled
  BY <1>1 DEF Handled
<1>3. q \in Handled => context'[slot[q]] = context[slot[q]]
  <2> SUFFICES ASSUME q \in Handled PROVE context'[slot[q]] = context[slot[q]]
    OBVIOUS
  <2>1. slot[q] # None /\ context[slot[q]].owner = q /\ slot[q] \in Context
    BY DEF OwnContext, TypeOK
  <2>2. slot[q] # slot[r]
    BY <2>1 DEF OwnContext
  <2>3. slot[q] # slot'[r]
    BY <2>1, <2>2 DEF Unheld
  <2> QED BY <2>1, <2>2, <2>3 DEF Others
<1>4. stage[q] = "returned" => q \in Handled
  BY DEF Handled, Waiting, Over
<1> USE <1>1, <1>2, <1>3, <1>4 DEF RequestInv
<1>5. OnRoute(q)'
  BY DEF OnRoute
<1>6. InStep(q)'
  BY DEF InStep
<1>7. FrameOf(q)' /\ LoginOf(q)'
  BY DEF FrameOf, LoginOf
<1>8. Holds(q)'
  BY DEF Holds
<1>9. TopOf(q)' /\ SessionOf(q)'
  BY DEF TopOf, SessionOf
<1>10. TokenSent(q)'
  BY DEF TokenSent, TokenOf
<1> QED BY <1>5, <1>6, <1>7, <1>8, <1>9, <1>10

-----------------------------------------------------------------------------
(* The invariant of the request that takes the step. *)

\* What is known of a request with a handler.
LEMMA OfHandled ==
  ASSUME TypeOK, OwnContext, NEW r \in Handled, RequestInv(r)
  PROVE  /\ r \in Request
         /\ ask[r] # None /\ ask[r] \in AskType
         /\ slot[r] \in Context /\ slot[r] # None /\ context[slot[r]] \in ContextType
         /\ tokens[r] = TokenOf(r) /\ tokens[r] # None
         /\ stage[r] \in StagesOf(ask[r].handler) \cup {"returned", "panicked"}
         /\ (context[slot[r]].written <=> answer[r] # None)
         /\ ~header[r].frame
<1>1. r \in Request /\ stage[r] \notin Waiting \cup Over \cup {"refused"}
  BY DEF Handled
<1>2. ask[r] # None /\ ask[r] \in AskType
  BY <1>1 DEF RequestInv, OnRoute, TypeOK, Waiting
<1>3. slot[r] # None /\ slot[r] \in Context
  BY <1>1 DEF OwnContext, TypeOK
<1>4. context[slot[r]] \in ContextType
  BY <1>3 DEF TypeOK
<1>5. tokens[r] = TokenOf(r) /\ tokens[r] # None
  BY <1>1 DEF RequestInv, TokenSent, Holds
<1>6. stage[r] \in StagesOf(ask[r].handler) \cup {"returned", "panicked"}
  BY <1>1, <1>2 DEF RequestInv, OnRoute, Waiting, Over
<1>7. (context[slot[r]].written <=> answer[r] # None) /\ ~header[r].frame
  BY <1>1 DEF RequestInv, InStep
<1> QED BY <1>1, <1>2, <1>3, <1>4, <1>5, <1>6, <1>7

\* What a handler that writes a body leaves.
LEMMA OfAnswers ==
  ASSUME TypeOK, OwnContext, NEW r \in Handled, RequestInv(r),
         NEW code \in Nat, NEW body \in BodyType, Answers(r, code, body)
  PROVE  /\ stage'[r] = "returned"
         /\ ask' = ask /\ tokens' = tokens /\ ginPool' = ginPool /\ slot' = slot /\ header' = header
         /\ context'[slot[r]].written /\ context'[slot[r]].owner = context[slot[r]].owner
         /\ context'[slot[r]].errors = context[slot[r]].errors
         /\ answer'[r] = IF answer[r] # None THEN answer[r]
                         ELSE [status |-> code, header |-> header[r], body |-> body]
         /\ answer'[r] # None
<1> USE OfHandled
<1>1. /\ stage'[r] = "returned"
      /\ ask' = ask /\ tokens' = tokens /\ ginPool' = ginPool /\ slot' = slot /\ header' = header
  BY DEF Answers, TypeOK
<1>2. context'[slot[r]] = Written(Noted(context[slot[r]], code))
  BY DEF Answers, Write, TypeOK
<1>3. /\ context'[slot[r]].written /\ context'[slot[r]].owner = context[slot[r]].owner
      /\ context'[slot[r]].errors = context[slot[r]].errors
  BY <1>2 DEF Written, Noted, ContextType
<1>4. Sent(Noted(Writer(r), code), header[r], body) = [status |-> code, header |-> header[r], body |-> body]
  BY DEF Sent, Noted, Writer, ContextType
<1>5. answer'[r] = IF answer[r] # None THEN answer[r]
                   ELSE [status |-> code, header |-> header[r], body |-> body]
  BY <1>4 DEF Answers, Write, Writer, TypeOK
<1>6. header[r] \in HeaderType
  BY DEF TypeOK
<1>7. [status |-> code, header |-> header[r], body |-> body] \in AnswerType
  BY <1>6 DEF AnswerType
<1> QED BY <1>1, <1>3, <1>5, <1>7, AbsenceAssumption

\* The invariant of r after a handler wrote a body that is not the one of the upstream
\* host, which is not Authenticate.
LEMMA AnswersKeep ==
  ASSUME TypeOK, OwnContext, NEW r \in Handled, RequestInv(r),
         NEW code \in {200, 404}, NEW body \in BodyType, Answers(r, code, body),
         body # NoBody, body.kind = "form" => body.value = TokenOf(r),
         body.kind = "top" => body.value = NoUser /\ registry[r] # None,
         ask[r].handler # "Authenticate", stage[r] # "returned",
         registry' = registry, restarts' = restarts, r \notin bodies'
  PROVE  RequestInv(r)'
<1>1. /\ stage'[r] = "returned"
      /\ ask' = ask /\ tokens' = tokens /\ ginPool' = ginPool /\ slot' = slot /\ header' = header
      /\ context'[slot[r]].written
      /\ answer'[r] = IF answer[r] # None THEN answer[r]
                      ELSE [status |-> code, header |-> header[r], body |-> body]
      /\ answer'[r] # None
  BY OfAnswers
<1>2. stage[r] \notin Waiting \cup Over \cup {"refused"}
  BY DEF Handled
<1> USE <1>1, <1>2, OfHandled DEF RequestInv, Waiting, Over
<1>3. OnRoute(r)'
  BY DEF OnRoute
<1>4. InStep(r)'
  BY DEF InStep
<1>5. FrameOf(r)'
  BY DEF FrameOf, InStep
<1>6. LoginOf(r)'
  BY DEF LoginOf
<1>7. Holds(r)'
  BY DEF Holds
<1>8. TopOf(r)'
  BY DEF TopOf
<1>9. TokenSent(r)'
  BY DEF TokenSent, TokenOf
<1>10. SessionOf(r)'
  BY DEF SessionOf
<1> QED BY <1>3, <1>4, <1>5, <1>6, <1>7, <1>8, <1>9, <1>10

\* The top page.
LEMMA KeepTop ==
  ASSUME TypeOK, OwnContext, NEW r \in Request, RequestInv(r), Top(r)
  PROVE  RequestInv(r)'
<1>1. r \in Handled /\ stage[r] = "show"
  BY DEF Top, Handled, Waiting, Over
<1>2. ask[r].handler # "Authenticate"
  BY <1>1, OfHandled DEF StagesOf
<1>3. PICK who \in Shown(r) : Answers(r, 200, TopPage(who))
  BY DEF Top
<1>4. registry[r] # None /\ registry[r] \in SessionType
  BY <1>1 DEF RequestInv, Holds, TypeOK
<1>5. who = NoUser
  <2>1. \A p \in registry[r].values : p[1] = KeyWritten
    BY <1>4 DEF SessionType
  <2>2. ValueOf(registry[r].values, KeyRead) = None
    BY <2>1 DEF ValueOf, KeyRead, KeyWritten
  <2> QED BY <2>2, NoneAssumption DEF Shown, Id
<1>6. TopPage(who) \in BodyType /\ TopPage(who) # NoBody
      /\ TopPage(who).kind = "top" /\ TopPage(who).value = NoUser
  BY <1>5 DEF TopPage, BodyType, NoBody
<1>7. registry' = registry /\ restarts' = restarts /\ bodies' = bodies
  BY DEF Top, sessionVars, dataVars
<1>8. r \notin bodies
  BY <1>1 DEF RequestInv, Holds
<1> QED BY <1>1, <1>2, <1>3, <1>4, <1>6, <1>7, <1>8, AnswersKeep

\* The forms: the form has the token of the request.
LEMMA KeepShowForm ==
  ASSUME TypeOK, OwnContext, NEW r \in Request, RequestInv(r), ShowForm(r)
  PROVE  RequestInv(r)'
<1>1. r \in Handled /\ stage[r] = "form"
  BY DEF ShowForm, Handled, Waiting, Over
<1>2. ask[r].handler # "Authenticate"
  BY <1>1, OfHandled DEF StagesOf
<1>3. tokens[r] \in Token /\ tokens[r] = TokenOf(r)
  BY <1>1, OfHandled DEF TypeOK
<1>4. Form(tokens[r]) \in BodyType /\ Form(tokens[r]) # NoBody
      /\ Form(tokens[r]).kind = "form" /\ Form(tokens[r]).value = TokenOf(r)
  BY <1>3 DEF Form, BodyType, NoBody
<1>5. registry' = registry /\ restarts' = restarts /\ bodies' = bodies /\ Answers(r, 200, Form(tokens[r]))
  BY DEF ShowForm, sessionVars, dataVars
<1>6. r \notin bodies
  BY <1>1 DEF RequestInv, Holds
<1> QED BY <1>1, <1>2, <1>4, <1>5, <1>6, AnswersKeep

\* A text is neither nothing nor a form nor the top page.
LEMMA TextBody == Text \in BodyType /\ Text # NoBody /\ Text.kind = "text"
BY DEF Text, BodyType, NoBody

\* The context of r is one of the contexts.
LEMMA InContext ==
  ASSUME TypeOK, OwnContext, NEW r \in Handled
  PROVE  slot[r] \in Context /\ slot[r] \in DOMAIN context /\ context[slot[r]] \in ContextType
BY DEF TypeOK, OwnContext, Handled

\* AbortWithError notes the status and an error of its own request.
LEMMA OfAbort ==
  ASSUME TypeOK, OwnContext, NEW r \in Handled, NEW code \in Nat, AbortWithError(r, code)
  PROVE  /\ context'[slot[r]].written = context[slot[r]].written
         /\ context'[slot[r]].status = code
         /\ context'[slot[r]].owner = context[slot[r]].owner
         /\ context'[slot[r]].errors = context[slot[r]].errors \cup {r}
         /\ header' = header /\ answer' = answer
<1>1. context'[slot[r]] = Aborted(context[slot[r]], code, r)
  BY InContext DEF AbortWithError
<1> QED BY <1>1, InContext DEF Aborted, ContextType, AbortWithError

\* A step that ends a handler with a status only, and no answer before.
LEMMA StatusKeeps ==
  ASSUME TypeOK, OwnContext, NEW r \in Handled, RequestInv(r),
         context'[slot[r]].written = context[slot[r]].written,
         Moved(r, "returned"), ask' = ask, tokens' = tokens, slot' = slot, header' = header,
         answer' = answer, registry' = registry, restarts' = restarts,
         ask[r].handler # "Authenticate", stage[r] # "returned",
         r \in bodies' => answer[r] = None /\ context'[slot[r]].status = 500
  PROVE  RequestInv(r)'
<1>1. stage[r] \notin Waiting \cup Over \cup {"refused"} /\ stage'[r] = "returned"
  BY DEF Handled, TypeOK
<1> USE <1>1, OfHandled DEF RequestInv, Waiting, Over
<1>3. OnRoute(r)'
  BY DEF OnRoute
<1>4. InStep(r)'
  BY DEF InStep
<1>5. FrameOf(r)'
  BY DEF FrameOf, InStep
<1>6. LoginOf(r)'
  BY DEF LoginOf
<1>7. Holds(r)'
  BY DEF Holds
<1>8. TopOf(r)'
  BY DEF TopOf
<1>9. TokenSent(r)'
  BY DEF TokenSent, TokenOf
<1>10. SessionOf(r)'
  BY DEF SessionOf
<1> QED BY <1>3, <1>4, <1>5, <1>6, <1>7, <1>8, <1>9, <1>10

\* Files.
LEMMA KeepFile ==
  ASSUME TypeOK, OwnContext, NEW r \in Request, RequestInv(r), File(r)
  PROVE  RequestInv(r)'
<1>1. r \in Handled /\ stage[r] = "File"
  BY DEF File, Handled, Waiting, Over
<1>2. ask[r].handler # "Authenticate"
  BY <1>1, OfHandled DEF StagesOf
<1>3. registry' = registry /\ restarts' = restarts /\ bodies' = bodies
  BY DEF File, sessionVars, dataVars
<1>4. r \notin bodies
  BY <1>1 DEF RequestInv, Holds
<1>5. ASSUME NEW code \in {200, 404}, Answers(r, code, Text) PROVE RequestInv(r)'
  BY <1>1, <1>2, <1>3, <1>4, <1>5, TextBody, AnswersKeep
<1>6. ASSUME context' = [context EXCEPT ![slot[r]] = Noted(@, 304)], Moved(r, "returned"),
             UNCHANGED <<ask, tokens, ginPool, slot, header, answer>>
      PROVE  RequestInv(r)'
  <2>1. context'[slot[r]].written = context[slot[r]].written
    BY <1>1, <1>6, InContext DEF Noted, ContextType
  <2>2. r \notin bodies'
    BY <1>3, <1>4
  <2> QED BY <1>1, <1>2, <1>3, <1>6, <2>1, <2>2, StatusKeeps
<1> QED BY <1>5, <1>6 DEF File

\* The upstream body is read.
LEMMA KeepRead ==
  ASSUME TypeOK, OwnContext, NEW r \in Request, RequestInv(r), Read(r)
  PROVE  RequestInv(r)'
<1>1. r \in Handled /\ stage[r] = "read" /\ answer[r] = None
  BY DEF Read, Handled, Waiting, Over, RequestInv, InStep
<1>2. ask[r].handler # "Authenticate"
  BY <1>1, OfHandled DEF StagesOf
<1>3. registry' = registry /\ restarts' = restarts
  BY DEF Read, sessionVars
<1>4. ASSUME Answers(r, 200, Text), bodies' = bodies \ {r} PROVE RequestInv(r)'
  BY <1>1, <1>2, <1>3, <1>4, TextBody, AnswersKeep
<1>5. ASSUME AbortWithError(r, 500), Moved(r, "returned"), UNCHANGED <<ask, tokens, ginPool, slot, bodies>>
      PROVE  RequestInv(r)'
  <2>1. context'[slot[r]].written = context[slot[r]].written /\ context'[slot[r]].status = 500
    BY <1>1, <1>5, OfAbort
  <2>2. header' = header /\ answer' = answer
    BY <1>5 DEF AbortWithError
  <2> QED BY <1>1, <1>2, <1>3, <1>5, <2>1, <2>2, StatusKeeps
<1> QED BY <1>4, <1>5 DEF Read

\* A handler that panics before it has written anything, or after the redirect of a POST.
LEMMA PanicKeeps ==
  ASSUME TypeOK, OwnContext, NEW r \in Handled, RequestInv(r), Moved(r, "panicked"),
         ask' = ask, tokens' = tokens, slot' = slot, header' = header, context' = context,
         answer' = answer, restarts' = restarts, r \notin bodies',
         registry[r] # None => registry'[r] # None,
         stage[r] # "returned"
  PROVE  RequestInv(r)'
<1>1. stage[r] \notin Waiting \cup Over \cup {"refused"} /\ stage'[r] = "panicked"
  BY DEF Handled, TypeOK
<1> USE <1>1, OfHandled DEF RequestInv, Waiting, Over
<1>3. OnRoute(r)'
  BY DEF OnRoute
<1>4. InStep(r)'
  BY DEF InStep
<1>5. FrameOf(r)'
  BY DEF FrameOf, InStep
<1>6. LoginOf(r)'
  BY DEF LoginOf
<1>7. Holds(r)'
  BY DEF Holds
<1>8. TopOf(r)'
  BY DEF TopOf
<1>9. TokenSent(r)'
  BY DEF TokenSent, TokenOf
<1>10. SessionOf(r)'
  BY DEF SessionOf
<1> QED BY <1>3, <1>4, <1>5, <1>6, <1>7, <1>8, <1>9, <1>10

\* The upstream host is asked.
LEMMA KeepFetch ==
  ASSUME TypeOK, OwnContext, NEW r \in Request, RequestInv(r), Fetch(r)
  PROVE  RequestInv(r)'
<1>1. r \in Handled /\ stage[r] = "Proxy" /\ stage[r] # "returned"
  BY DEF Fetch, Handled, Waiting, Over
<1>2. ask[r].handler # "Authenticate" /\ r \notin bodies
  BY <1>1, OfHandled DEF StagesOf, RequestInv, Holds
<1>3. registry' = registry /\ restarts' = restarts
      /\ ask' = ask /\ tokens' = tokens /\ slot' = slot
  BY DEF Fetch, sessionVars
<1>4. ASSUME NEW code \in {400, 302}, AbortWithError(r, code), Moved(r, "returned"), UNCHANGED bodies
      PROVE  RequestInv(r)'
  <2>1. context'[slot[r]].written = context[slot[r]].written
    BY <1>1, <1>4, OfAbort
  <2>2. header' = header /\ answer' = answer
    BY <1>4 DEF AbortWithError
  <2> QED BY <1>1, <1>2, <1>3, <1>4, <2>1, <2>2, StatusKeeps
<1>5. ASSUME Moved(r, "panicked"), UNCHANGED <<context, header, answer, bodies>> PROVE RequestInv(r)'
  BY <1>1, <1>2, <1>3, <1>5, PanicKeeps
<1>6. ASSUME bodies' = bodies \cup {r}, Moved(r, "read"), UNCHANGED <<context, header, answer>>
      PROVE  RequestInv(r)'
  <2>1. stage[r] \notin Waiting \cup Over \cup {"refused"} /\ stage'[r] = "read"
    BY <1>1, <1>6 DEF Handled, TypeOK
  <2>2. stage' = [stage EXCEPT ![r] = "read"]
    BY <1>6
  <2> USE <1>1, <1>2, <1>3, <1>6, <2>1, OfHandled DEF RequestInv, Waiting, Over
  <2>3. OnRoute(r)'
    BY DEF OnRoute, StagesOf, AskType, Handlers
  <2>4. InStep(r)'
    BY DEF InStep
  <2>5. FrameOf(r)'
    BY DEF FrameOf, InStep
  <2>6. LoginOf(r)'
    BY DEF LoginOf
  <2>7. Holds(r)'
    BY DEF Holds
  <2>8. TopOf(r)' /\ TokenSent(r)'
    BY DEF TopOf, TokenSent, TokenOf
  <2>9. SessionOf(r)'
    BY DEF SessionOf
  <2> QED BY <2>3, <2>4, <2>5, <2>6, <2>7, <2>8, <2>9
<1> QED BY <1>4, <1>5, <1>6 DEF Fetch

\* What a redirect leaves.
LEMMA OfRedirect ==
  ASSUME TypeOK, OwnContext, NEW r \in Handled, RequestInv(r), NEW h \in HeaderType, Redirect(r, h)
  PROVE  /\ header'[r] = h
         /\ context'[slot[r]].owner = context[slot[r]].owner
         /\ context'[slot[r]].errors = context[slot[r]].errors
         /\ ask[r].method = "GET" =>
              /\ context'[slot[r]].written
              /\ answer'[r] = IF answer[r] # None THEN answer[r]
                              ELSE [status |-> 301, header |-> h, body |-> Text]
              /\ answer'[r] # None
         /\ ask[r].method # "GET" =>
              /\ answer'[r] = answer[r]
              /\ context'[slot[r]].written = context[slot[r]].written
<1>1. r \in Request /\ header \in [Request -> HeaderType] /\ answer \in [Request -> AnswerType \cup {None}]
  BY DEF TypeOK, Handled
<1>2. header'[r] = h
  BY <1>1 DEF Redirect
<1>3. CASE ask[r].method = "GET"
  <2>1. Write(r, h, 301, Text)
    BY <1>3 DEF Redirect
  <2>2. context'[slot[r]] = Written(Noted(context[slot[r]], 301))
    BY <2>1, InContext DEF Write
  <2>3. /\ context'[slot[r]].written /\ context'[slot[r]].owner = context[slot[r]].owner
        /\ context'[slot[r]].errors = context[slot[r]].errors
    BY <2>2, InContext DEF Written, Noted, ContextType
  <2>4. Sent(Noted(Writer(r), 301), h, Text) = [status |-> 301, header |-> h, body |-> Text]
    BY InContext DEF Sent, Noted, Writer, ContextType
  <2>5. answer'[r] = IF answer[r] # None THEN answer[r]
                     ELSE [status |-> 301, header |-> h, body |-> Text]
    BY <1>1, <2>1, <2>4, OfHandled DEF Write, Writer
  <2>6. [status |-> 301, header |-> h, body |-> Text] \in AnswerType
    BY TextBody DEF AnswerType
  <2> QED BY <1>2, <1>3, <2>3, <2>5, <2>6, AbsenceAssumption
<1>4. CASE ask[r].method # "GET"
  <2>1. context' = [context EXCEPT ![slot[r]] = Noted(@, 301)] /\ answer' = answer
    BY <1>4 DEF Redirect
  <2>2. context'[slot[r]] = Noted(context[slot[r]], 301)
    BY <2>1, InContext
  <2> QED BY <1>2, <1>4, <2>1, <2>2, InContext DEF Noted, ContextType
<1> QED BY <1>3, <1>4

\* The invariant of r when its handler ends with a redirect.
LEMMA RedirectKeeps ==
  ASSUME TypeOK, OwnContext, NEW r \in Handled, RequestInv(r), stage[r] # "returned",
         NEW h \in HeaderType, Redirect(r, h), Moved(r, "returned"),
         h.csrf = header[r].csrf, ~h.frame,
         ask[r].handler = "Authenticate" => h.to = "/" /\ h.sid # None,
         ask' = ask, tokens' = tokens, slot' = slot, restarts' = restarts,
         registry[r] # None => registry'[r] # None, r \notin bodies'
  PROVE  RequestInv(r)'
<1>1. stage[r] \notin Waiting \cup Over \cup {"refused"} /\ stage'[r] = "returned" /\ answer[r] = None
      /\ header'[r] = h
  <2>1. stage[r] \notin Waiting \cup Over \cup {"refused"} /\ stage'[r] = "returned"
    BY DEF Handled, TypeOK
  <2>2. answer[r] = None
    BY DEF RequestInv, InStep
  <2> QED BY <2>1, <2>2, OfRedirect
<1>2. CASE ask[r].method = "GET"
  <2>1. /\ context'[slot[r]].written /\ answer'[r] # None
        /\ answer'[r] = [status |-> 301, header |-> h, body |-> Text]
    BY <1>1, <1>2, OfRedirect
  <2>2. answer'[r].status = 301 /\ answer'[r].header = h /\ answer'[r].body.kind = "text"
        /\ answer'[r].body # NoBody
    BY <2>1, TextBody
  <2>3. ask[r].handler # "Authenticate"
    BY <1>1, <1>2, OfHandled, RoutesAssumption DEF RequestInv, OnRoute
  <2> HIDE DEF Moved
  <2> USE <1>1, <2>1, <2>2, <2>3, OfHandled DEF RequestInv, Waiting, Over
  <2>4. OnRoute(r)'
    BY DEF OnRoute
  <2>5. InStep(r)' /\ FrameOf(r)'
    BY DEF InStep, FrameOf
  <2>6. LoginOf(r)' /\ Holds(r)'
    BY DEF LoginOf, Holds
  <2>7. TopOf(r)' /\ SessionOf(r)'
    BY DEF TopOf, SessionOf
  <2>8. TokenSent(r)'
    BY DEF TokenSent, TokenOf
  <2> QED BY <2>4, <2>5, <2>6, <2>7, <2>8
<1>3. CASE ask[r].method # "GET"
  <2>1. answer'[r] = None /\ ~context'[slot[r]].written
    BY <1>1, <1>3, OfRedirect, OfHandled
  <2> HIDE DEF Moved
  <2> USE <1>1, <2>1, OfHandled DEF RequestInv, Waiting, Over
  <2>4. OnRoute(r)'
    BY DEF OnRoute
  <2>5. InStep(r)' /\ FrameOf(r)'
    BY DEF InStep, FrameOf
  <2>6. LoginOf(r)' /\ Holds(r)'
    BY DEF LoginOf, Holds
  <2>7. TopOf(r)' /\ SessionOf(r)'
    BY DEF TopOf, SessionOf
  <2>8. TokenSent(r)'
    BY DEF TokenSent, TokenOf
  <2> QED BY <2>4, <2>5, <2>6, <2>7, <2>8
<1> QED BY <1>2, <1>3

\* A user is created, or not.
LEMMA KeepCreate ==
  ASSUME TypeOK, OwnContext, NEW r \in Request, RequestInv(r), Create(r)
  PROVE  RequestInv(r)'
<1> DEFINE h == [header[r] EXCEPT !.to = "/login"]
<1>1. r \in Handled /\ stage[r] = "Create" /\ stage[r] # "returned"
  BY DEF Create, Handled, Waiting, Over
<1>2. ask[r].handler # "Authenticate" /\ r \notin bodies /\ ~header[r].frame
  BY <1>1, OfHandled DEF StagesOf, RequestInv, Holds
<1>3. header[r] \in HeaderType
  BY DEF TypeOK
<1>4. h \in HeaderType /\ h.csrf = header[r].csrf /\ ~h.frame
  BY <1>2, <1>3 DEF HeaderType
<1>5. Redirect(r, h) /\ Moved(r, "returned") /\ ask' = ask /\ tokens' = tokens /\ slot' = slot
      /\ restarts' = restarts /\ registry' = registry /\ bodies' = bodies
  BY DEF Create, sessionVars
<1> HIDE DEF h
<1> QED BY <1>1, <1>2, <1>4, <1>5, RedirectKeeps

\* The password is checked.
LEMMA KeepCheckPassword ==
  ASSUME TypeOK, OwnContext, NEW r \in Request, RequestInv(r), CheckPassword(r)
  PROVE  RequestInv(r)'
<1>1. r \in Handled /\ stage[r] = "Authenticate" /\ stage'[r] = "session"
      /\ stage[r] \notin Waiting \cup Over \cup {"refused"}
  BY DEF CheckPassword, Handled, Waiting, Over, TypeOK
<1>2. ask[r].handler = "Authenticate" /\ ask[r].method # "GET"
  <2>1. ask[r].handler = "Authenticate"
    BY <1>1, OfHandled DEF StagesOf, AskType, Handlers
  <2> QED BY <1>1, <2>1, OfHandled, RoutesAssumption DEF RequestInv, OnRoute
<1>3. answer[r] = None /\ ask' = ask /\ tokens' = tokens /\ slot' = slot /\ registry' = registry
      /\ restarts' = restarts /\ bodies' = bodies
  BY <1>1 DEF RequestInv, InStep, CheckPassword, sessionVars
<1>4. /\ header'[r].csrf = header[r].csrf /\ header'[r].sid = header[r].sid /\ ~header'[r].frame
      /\ answer'[r] = None /\ context'[slot[r]].written = context[slot[r]].written
  <2>1. CASE UNCHANGED <<context, header, answer>>
    BY <1>1, <1>3, <2>1, OfHandled
  <2>2. CASE Redirect(r, [header[r] EXCEPT !.to = "/login"])
    <3> DEFINE h == [header[r] EXCEPT !.to = "/login"]
    <3>1. header[r] \in HeaderType
      BY DEF TypeOK
    <3>2. h \in HeaderType /\ h.csrf = header[r].csrf /\ h.sid = header[r].sid /\ h.frame = header[r].frame
      BY <3>1 DEF HeaderType
    <3>3. Redirect(r, h)
      BY <2>2
    <3> HIDE DEF h
    <3> QED BY <1>1, <1>2, <1>3, <3>2, <3>3, OfRedirect, OfHandled
  <2> QED BY <2>1, <2>2 DEF CheckPassword
<1> HIDE DEF Moved
<1> USE <1>1, <1>2, <1>3, <1>4, OfHandled DEF RequestInv, Waiting, Over
<1>5. OnRoute(r)'
  BY DEF OnRoute, StagesOf
<1>6. InStep(r)' /\ FrameOf(r)'
  BY DEF InStep, FrameOf
<1>7. LoginOf(r)' /\ Holds(r)'
  BY DEF LoginOf, Holds
<1>8. TopOf(r)' /\ SessionOf(r)'
  BY DEF TopOf, SessionOf
<1>9. TokenSent(r)'
  BY DEF TokenSent, TokenOf
<1> QED BY <1>5, <1>6, <1>7, <1>8, <1>9

\* The session that is made for a cookie that can be decoded, or without one.
LEMMA OfNew ==
  ASSUME NEW cookie, NEW s \in New(cookie), ~s.bad
  PROVE  s.id = (IF cookie = None THEN None ELSE cookie.id) /\ s.age = maxAge
<1>1. CASE cookie = None
  BY <1>1 DEF New, NewSession
<1>2. CASE cookie # None /\ ~Decodes(cookie)
  <2>1. s = [NewSession EXCEPT !.bad = TRUE]
    BY <1>2 DEF New
  <2> QED BY <2>1 DEF NewSession
<1>3. CASE cookie # None /\ Decodes(cookie)
  <2>1. PICK v : s = [NewSession EXCEPT !.id = cookie.id, !.values = v]
    BY <1>3 DEF New
  <2> QED BY <1>3, <2>1 DEF NewSession
<1> QED BY <1>1, <1>2, <1>3

\* The header that sends a session cookie.
LEMMA OfSetCookie ==
  ASSUME TypeOK, NEW r \in Request, NEW s \in SessionType,
         NEW h, h = [SetCookie(r, s) EXCEPT !.to = "/"]
  PROVE  /\ h \in HeaderType
         /\ h.csrf = header[r].csrf /\ h.frame = header[r].frame /\ h.to = "/"
         /\ h.sid # None /\ h.sid.at = now /\ h.sid.age = s.age
         /\ h.sid.id = IF s.age < 0 THEN None ELSE IF s.id = None THEN NewId(r) ELSE s.id
<1> DEFINE id == IF s.age < 0 THEN None ELSE IF s.id = None THEN NewId(r) ELSE s.id
           c  == Cookie(id, s.age)
<1>1. header[r] \in HeaderType /\ now \in Int
  BY DEF TypeOK
<1>2. id \in Id \cup {None}
  BY DEF SessionType, NewId, Id
<1>3. c \in CookieType /\ c.at = now /\ c.age = s.age /\ c.id = id
  BY <1>1, <1>2 DEF Cookie, CookieType, SessionType
<1>4. c # None
  BY <1>3, AbsenceAssumption
<1>5. h = [[header[r] EXCEPT !.sid = c] EXCEPT !.to = "/"]
  BY DEF SetCookie
<1>6. h \in HeaderType
  BY TypeSetCookie
<1> HIDE DEF c, id
<1>7. h.sid = c /\ h.csrf = header[r].csrf /\ h.frame = header[r].frame /\ h.to = "/"
  BY <1>1, <1>5 DEF HeaderType
<1> QED BY <1>3, <1>4, <1>6, <1>7 DEF id

\* The session is loaded, or its cookie makes the handler panic.
LEMMA KeepLoadSession ==
  ASSUME TypeOK, OwnContext, NEW r \in Request, RequestInv(r), LoadSession(r),
         ask[r].sid # None => ask[r].sid.id \in Id
  PROVE  RequestInv(r)'
<1>1. r \in Handled /\ stage[r] = "session" /\ stage[r] # "returned"
      /\ stage[r] \notin Waiting \cup Over \cup {"refused"}
  BY DEF LoadSession, Handled, Waiting, Over
<1>2. PICK s \in New(ask[r].sid) :
        /\ registry' = [registry EXCEPT ![r] = s]
        /\ Moved(r, IF s.bad THEN "panicked" ELSE AfterSession(ask[r].handler))
  BY DEF LoadSession, GetSession
<1>3. ask[r].sid \in CookieType \cup {None}
  BY <1>1, OfHandled DEF AskType
<1>4. s \in SessionType /\ s # None
  BY <1>3, TypeNew, AbsenceAssumption
<1>5. registry'[r] = s
  BY <1>2 DEF TypeOK
<1>6. /\ ask' = ask /\ tokens' = tokens /\ slot' = slot /\ context' = context /\ header' = header
      /\ answer' = answer /\ restarts' = restarts /\ bodies' = bodies /\ maxAge' = maxAge
  BY DEF LoadSession, GetSession, dataVars
<1>7. answer[r] = None /\ r \notin bodies
  BY <1>1 DEF RequestInv, InStep, Holds
<1>8. CASE s.bad
  BY <1>1, <1>2, <1>4, <1>5, <1>6, <1>7, <1>8, PanicKeeps
<1>9. CASE ~s.bad
  <2>1. stage'[r] = AfterSession(ask[r].handler)
    BY <1>2, <1>9 DEF TypeOK
  <2>2. ask[r].handler \in {"Top", "Authenticate", "Logout"}
    BY <1>1, OfHandled DEF StagesOf, AskType, Handlers
  <2>3. s.id = (IF ask[r].sid = None THEN None ELSE ask[r].sid.id) /\ s.age = maxAge
    BY <1>9, OfNew
  <2> HIDE DEF Moved
  <2> USE <1>1, <1>4, <1>5, <1>6, <1>7, <2>1, <2>2, <2>3, OfHandled DEF RequestInv, Waiting, Over
  <2>4. OnRoute(r)'
    BY DEF OnRoute, StagesOf, AfterSession
  <2>5. InStep(r)' /\ FrameOf(r)'
    BY DEF InStep, FrameOf, AfterSession
  <2>6. LoginOf(r)' /\ Holds(r)'
    BY DEF LoginOf, Holds, AfterSession
  <2>7. TopOf(r)' /\ SessionOf(r)'
    BY DEF TopOf, SessionOf, AfterSession
  <2>8. TokenSent(r)'
    BY DEF TokenSent, TokenOf, AfterSession
  <2> QED BY <2>4, <2>5, <2>6, <2>7, <2>8
<1> QED BY <1>8, <1>9

\* A session is saved or deleted: the handler redirects or panics.
LEMMA SaveKeeps ==
  ASSUME TypeOK, OwnContext, NEW r \in Handled, RequestInv(r), stage[r] \in {"keep", "destroy"},
         NEW s \in SessionType, Save(r, s, Redirects(r, s)),
         UNCHANGED <<ask, tokens, browserVars, dataVars, restarts>>
  PROVE  RequestInv(r)'
<1> DEFINE h == [SetCookie(r, s) EXCEPT !.to = "/"]
           kept == IF s.id = None /\ s.age >= 0 THEN [s EXCEPT !.id = NewId(r)] ELSE s
<1>1. kept \in SessionType
  BY DEF SessionType, NewId, Id, Handled
<1>2. registry' = [registry EXCEPT ![r] = kept]
  BY DEF Save
<1>3. registry'[r] # None
  <2> HIDE DEF kept
  <2> QED BY <1>1, <1>2, AbsenceAssumption DEF TypeOK, Handled
<1>4. r \in Request /\ stage[r] # "returned" /\ r \notin bodies'
  BY DEF Handled, RequestInv, Holds, dataVars
<1>5. ask' = ask /\ tokens' = tokens /\ restarts' = restarts
  OBVIOUS
<1>6. CASE Redirects(r, s)
  <2>1. /\ h \in HeaderType
        /\ h.csrf = header[r].csrf /\ h.frame = header[r].frame /\ h.to = "/" /\ h.sid # None
    BY <1>4, OfSetCookie, ZenonT(40)
  <2>2. ~header[r].frame
    BY OfHandled
  <2>3. Redirect(r, h) /\ Moved(r, "returned") /\ slot' = slot
    BY <1>6 DEF Redirects
  <2> HIDE DEF h, kept
  <2> QED BY <1>3, <1>4, <1>5, <2>1, <2>2, <2>3, RedirectKeeps
<1>7. CASE Moved(r, "panicked") /\ UNCHANGED <<ginPool, slot, context, header, answer>>
  <2> HIDE DEF h, kept
  <2> QED BY <1>3, <1>4, <1>5, <1>7, PanicKeeps
<1> QED BY <1>6, <1>7 DEF Save

\* The session keeps the user.
LEMMA KeepKeepUser ==
  ASSUME TypeOK, OwnContext, NEW r \in Request, RequestInv(r), KeepUser(r)
  PROVE  RequestInv(r)'
<1> DEFINE s == [registry[r] EXCEPT !.values = SetValue(@, KeyWritten, found[r])]
<1>1. r \in Handled /\ stage[r] = "keep"
  BY DEF KeepUser, Handled, Waiting, Over
<1>2. registry[r] \in SessionType /\ found[r] \in Id \cup {NoUser, None}
  BY <1>1 DEF TypeOK, RequestInv, Holds
<1>3. s \in SessionType
  BY <1>2 DEF SessionType, SetValue
<1>4. Save(r, s, Redirects(r, s)) /\ UNCHANGED <<ask, tokens, browserVars, dataVars, restarts>>
  BY DEF KeepUser
<1> HIDE DEF s
<1> QED BY <1>1, <1>3, <1>4, SaveKeeps

\* The session is destroyed.
LEMMA KeepLogout ==
  ASSUME TypeOK, OwnContext, NEW r \in Request, RequestInv(r), Logout(r)
  PROVE  RequestInv(r)'
<1> DEFINE s == [registry[r] EXCEPT !.age = -1]
<1>1. r \in Handled /\ stage[r] = "destroy"
  BY DEF Logout, Handled, Waiting, Over
<1>2. registry[r] \in SessionType
  BY <1>1 DEF TypeOK, RequestInv, Holds
<1>3. s \in SessionType
  BY <1>2 DEF SessionType
<1>4. Save(r, s, Redirects(r, s)) /\ UNCHANGED <<ask, tokens, browserVars, dataVars, restarts>>
  BY DEF Logout
<1> HIDE DEF s
<1> QED BY <1>1, <1>3, <1>4, SaveKeeps

\* A request is asked.
LEMMA KeepAsk ==
  ASSUME TypeOK, NEW r \in Request, RequestInv(r), Ask(r)
  PROVE  RequestInv(r)'
<1>1. stage[r] = "new" /\ stage'[r] = "asked"
  BY DEF Ask, TypeOK
<1>2. PICK b \in Browser, route \in Routes \cup {<<"GET", "NoRoute">>, <<"GET", "OtherSlash">>},
           e \in Email \cup {None}, p \in Password \cup {None} :
        /\ (e # None) = (route[2] \in {"Create", "Authenticate"})
        /\ (p # None) = (route[2] \in {"Create", "Authenticate"})
        /\ ask' = [ask EXCEPT ![r] =
                     [browser |-> b, method |-> route[1], handler |-> route[2],
                      csrf |-> jar[b].csrf, sid |-> jar[b].sid, form |-> page[b],
                      email |-> e, password |-> p]]
  BY Zenon DEF Ask
<1> DEFINE asked == [browser |-> b, method |-> route[1], handler |-> route[2],
                     csrf |-> jar[b].csrf, sid |-> jar[b].sid, form |-> page[b],
                     email |-> e, password |-> p]
<1>3. ask'[r] = asked
  BY <1>2 DEF TypeOK
<1>4. asked \in AskType
  <2>1. route[1] \in {"GET", "POST"} /\ route[2] \in Handlers \cup {"NoRoute", "OtherSlash"}
    BY RoutesAssumption
  <2>2. jar[b] \in [csrf : Token \cup {None}, sid : CookieType \cup {None}] /\ page[b] \in Token \cup {None}
    BY DEF TypeOK
  <2> QED BY <2>1, <2>2 DEF AskType
<1>5. asked # None
  BY <1>4, AbsenceAssumption
<1>6. asked.method = route[1] /\ asked.handler = route[2] /\ asked.email = e /\ asked.password = p
  OBVIOUS
<1>7. <<route[1], route[2]>> = route
  BY RoutesAssumption
<1>8. /\ tokens'[r] = tokens[r] /\ header'[r] = header[r] /\ answer'[r] = answer[r]
      /\ registry'[r] = registry[r] /\ (r \in bodies' <=> r \in bodies)
  BY DEF Ask, sessionVars, dataVars
<1>9. answer[r] = None /\ header[r] = EmptyHeader
  BY <1>1 DEF RequestInv, InStep, Waiting
<1>10. r \notin Handled'
  BY <1>1 DEF Handled, Waiting
<1> HIDE DEF asked, Moved
<1> USE <1>1, <1>3, <1>5, <1>8, <1>9, <1>10 DEF RequestInv, Waiting, Over
<1>11. OnRoute(r)'
  BY <1>2, <1>6, <1>7 DEF OnRoute
<1>12. InStep(r)' /\ FrameOf(r)'
  BY DEF InStep, FrameOf, EmptyHeader
<1>13. LoginOf(r)' /\ Holds(r)'
  BY DEF LoginOf, Holds
<1>14. TopOf(r)' /\ SessionOf(r)'
  BY DEF TopOf, SessionOf
<1>15. TokenSent(r)'
  BY DEF TokenSent, EmptyHeader
<1> QED BY <1>11, <1>12, <1>13, <1>14, <1>15

\* What GetToken leaves.
LEMMA OfGetToken ==
  ASSUME TypeOK, NEW r \in Request, ask[r] # None, header[r] = EmptyHeader, GetToken(r)
  PROVE  /\ tokens'[r] = TokenOf(r) /\ tokens'[r] \in Token
         /\ header'[r].csrf = IF ask[r].csrf = None THEN r ELSE None
         /\ header'[r].sid = None /\ ~header'[r].frame
<1>1. ask[r].csrf \in Token \cup {None}
  BY DEF TypeOK, AskType
<1>2. tokens'[r] = TokenOf(r) /\ tokens'[r] \in Token
  BY <1>1 DEF GetToken, setTokenCookie, TypeOK, TokenOf, Token
<1>3. CASE ask[r].csrf = None
  <2>1. header'[r] = [EmptyHeader EXCEPT !.csrf = r]
    BY <1>3 DEF GetToken, setTokenCookie, TypeOK
  <2> QED BY <1>2, <1>3, <2>1 DEF EmptyHeader
<1>4. CASE ask[r].csrf # None
  BY <1>2, <1>4 DEF GetToken, EmptyHeader
<1> QED BY <1>3, <1>4

\* A request is dispatched to its handler or refused.
LEMMA KeepServe ==
  ASSUME TypeOK, NEW r \in Request, RequestInv(r), Serve(r)
  PROVE  RequestInv(r)'
<1>1. /\ stage[r] = "asked" /\ GetToken(r) /\ ask' = ask
      /\ registry' = registry /\ bodies' = bodies /\ restarts' = restarts
  BY DEF Serve, ServeHTTP, sessionVars, dataVars
<1>2. ask[r] # None /\ ask[r] \in AskType
  BY <1>1 DEF RequestInv, OnRoute, TypeOK
<1>3. answer[r] = None /\ header[r] = EmptyHeader /\ r \notin bodies /\ tokens[r] = None
  BY <1>1 DEF RequestInv, InStep, Waiting, Holds
<1>4. /\ tokens'[r] = TokenOf(r) /\ tokens'[r] # None
      /\ header'[r].csrf = IF ask[r].csrf = None THEN r ELSE None
      /\ header'[r].sid = None /\ ~header'[r].frame
  BY <1>1, <1>2, <1>3, OfGetToken, NoneAssumption DEF Token
<1>5. CASE Dispatch(r, FirstStep(ask[r].handler))
  <2>1. PICK c \in Unheld : slot' = [slot EXCEPT ![r] = c] /\ context' = [context EXCEPT ![c] = Reset(@, r)]
    BY <1>5 DEF Dispatch
  <2>2. slot'[r] = c /\ ~context'[c].written
    BY <2>1 DEF TypeOK, Unheld, Reset, NewContext
  <2>3. stage'[r] = FirstStep(ask[r].handler) /\ answer'[r] = None
    BY <1>3, <1>5 DEF Dispatch, TypeOK
  <2>4. FirstStep(ask[r].handler) \in StagesOf(ask[r].handler)
    BY <1>2 DEF FirstStep, StagesOf, AskType, Handlers
  <2>5. FirstStep(ask[r].handler) \in {"session", "form", "unrouted", "slash", "Proxy", "File", "Create", "Authenticate"}
    BY <1>2 DEF FirstStep, AskType, Handlers
  <2> HIDE DEF Moved
  <2> USE <1>1, <1>2, <1>3, <1>4, <2>2, <2>3, <2>4, <2>5 DEF RequestInv, Waiting, Over
  <2>6. OnRoute(r)'
    BY DEF OnRoute
  <2>7. InStep(r)' /\ FrameOf(r)'
    BY DEF InStep, FrameOf
  <2>8. LoginOf(r)' /\ Holds(r)'
    BY DEF LoginOf, Holds
  <2>9. TopOf(r)' /\ SessionOf(r)'
    BY DEF TopOf, SessionOf
  <2>10. TokenSent(r)'
    BY DEF TokenSent, TokenOf
  <2> QED BY <2>6, <2>7, <2>8, <2>9, <2>10
<1>6. CASE Refuse(r)
  <2>1. stage'[r] = "refused" /\ answer'[r] = [status |-> 400, header |-> header'[r], body |-> NoBody]
    BY <1>6 DEF Refuse, TypeOK
  <2>2. header'[r] \in HeaderType
    BY <1>2, TypeServe DEF TypeOK
  <2>3. answer'[r] \in AnswerType
    BY <2>1, <2>2, Types DEF AnswerType
  <2>4. answer'[r] # None
    BY <2>3, AbsenceAssumption
  <2>5. answer'[r].status = 400 /\ answer'[r].header = header'[r] /\ answer'[r].body.kind = "none"
    BY <2>1 DEF NoBody
  <2>6. r \notin Handled'
    BY <2>1 DEF Handled
  <2> HIDE DEF Moved
  <2> USE <1>1, <1>2, <1>3, <1>4, <2>1, <2>4, <2>5, <2>6 DEF RequestInv, Waiting, Over
  <2>7. OnRoute(r)'
    BY DEF OnRoute
  <2>8. InStep(r)' /\ FrameOf(r)'
    BY DEF InStep, FrameOf
  <2>9. LoginOf(r)' /\ Holds(r)'
    BY DEF LoginOf, Holds
  <2>10. TopOf(r)' /\ SessionOf(r)'
    BY DEF TopOf, SessionOf
  <2>11. TokenSent(r)'
    BY DEF TokenSent, TokenOf
  <2> QED BY <2>7, <2>8, <2>9, <2>10, <2>11
<1> QED BY <1>5, <1>6 DEF Serve, ServeHTTP

\* What the end of a request leaves: what was sent stays sent, or the header goes out
\* with a body that is no page.
EndedAs(r, code, body) ==
  /\ stage'[r] = "done" /\ tokens'[r] = None /\ ask' = ask
  /\ header'[r].csrf = header[r].csrf /\ header'[r].sid = header[r].sid
  /\ answer'[r] = IF answer[r] # None THEN answer[r]
                  ELSE [status |-> code, header |-> header'[r], body |-> body]
  /\ answer'[r] # None

\* The invariant of a request that is over.
LEMMA EndKeeps ==
  ASSUME TypeOK, OwnContext, NEW r \in Request, RequestInv(r),
         stage[r] \in {"returned", "unrouted", "slash", "panicked", "refused"},
         NEW code, NEW body, EndedAs(r, code, body),
         registry' = registry, restarts' = restarts, bodies' = bodies,
         answer[r] = None =>
           /\ body.kind \in {"none", "text"}
           /\ header'[r].frame => body = NoBody \/ code = 404
           /\ body = NoBody /\ code = 301 => header'[r].frame
           /\ ask[r].handler = "Authenticate" /\ code = 301 => header'[r].to = "/" /\ header'[r].sid # None
           /\ r \in bodies => code = 500
  PROVE  RequestInv(r)'
<1>1. r \notin Handled'
  BY DEF EndedAs, Handled, Over
<1>2. ask[r] # None
  BY DEF RequestInv, OnRoute
<1>3. r \in bodies => answer[r] = None
  BY DEF RequestInv, Holds
<1>4. answer[r] = None =>
        /\ answer'[r].status = code /\ answer'[r].body = body
        /\ answer'[r].header = header'[r]
  BY DEF EndedAs
<1>5. answer[r] # None => answer'[r] = answer[r]
  BY DEF EndedAs
<1>6. /\ stage'[r] = "done" /\ tokens'[r] = None /\ ask' = ask
      /\ header'[r].csrf = header[r].csrf /\ header'[r].sid = header[r].sid
      /\ answer'[r] # None
  BY DEF EndedAs
<1> HIDE DEF Moved
<1> USE <1>1, <1>2, <1>3, <1>4, <1>5, <1>6 DEF RequestInv, Waiting, Over
<1>7. OnRoute(r)'
  BY DEF OnRoute
<1>8. InStep(r)'
  BY DEF InStep
<1>9. FrameOf(r)'
  BY DEF FrameOf, InStep
<1>10. LoginOf(r)'
  BY DEF LoginOf
<1>11. Holds(r)'
  BY DEF Holds
<1>12. TopOf(r)' /\ SessionOf(r)'
  BY DEF TopOf, SessionOf
<1>13. TokenSent(r)'
  BY DEF TokenSent, TokenOf
<1> QED BY <1>7, <1>8, <1>9, <1>10, <1>11, <1>12, <1>13

\* What giving the context back and flushing leave, with the headers h.
LEMMA OfFlush ==
  ASSUME TypeOK, OwnContext, NEW r \in Handled, RequestInv(r),
         NEW w \in ContextType, w.written = context[slot[r]].written,
         NEW h \in HeaderType, h.csrf = header[r].csrf, h.sid = header[r].sid,
         NEW body \in BodyType,
         header' = [header EXCEPT ![r] = h], Flush(r, w, h, body, answer), GiveBack(r)
  PROVE  EndedAs(r, w.status, body) /\ header'[r] = h
<1>1. stage'[r] = "done" /\ tokens'[r] = None /\ ask' = ask /\ header'[r] = h
  BY DEF TypeOK, GiveBack, Finish, ctxClear, Handled
<1>2. answer'[r] = IF answer[r] # None THEN answer[r] ELSE [status |-> w.status, header |-> h, body |-> body]
  BY OfHandled DEF TypeOK, Flush, Sent
<1>3. [status |-> w.status, header |-> h, body |-> body] # None
  <2>1. [status |-> w.status, header |-> h, body |-> body] \in AnswerType
    BY DEF AnswerType, ContextType
  <2> QED BY <2>1, AbsenceAssumption
<1> QED BY <1>1, <1>2, <1>3 DEF EndedAs

\* The handler returned.
LEMMA KeepReturn ==
  ASSUME TypeOK, OwnContext, NEW r \in Request, RequestInv(r), Return(r),
         registry' = registry, restarts' = restarts, bodies' = bodies
  PROVE  RequestInv(r)' /\ header'[r].csrf = header[r].csrf /\ header'[r].sid = header[r].sid
<1> DEFINE h == [header[r] EXCEPT !.frame = TRUE]
           w == context[slot[r]]
<1>1. r \in Handled /\ stage[r] = "returned" /\ header[r] \in HeaderType
  BY DEF Return, Handled, Waiting, Over, TypeOK
<1>2. h \in HeaderType /\ h.csrf = header[r].csrf /\ h.sid = header[r].sid /\ h.frame /\ h.to = header[r].to
  BY <1>1 DEF HeaderType
<1>3. w \in ContextType
  BY <1>1, OfHandled
<1>4. header' = [header EXCEPT ![r] = h] /\ header'[r] = h
  BY DEF Return, TypeOK
<1>5. Flush(r, w, h, NoBody, answer) /\ GiveBack(r)
  BY <1>4 DEF Return, Writer, noFrame
<1>6. /\ ask[r].handler = "Authenticate" => h.to = "/" /\ h.sid # None
      /\ r \in bodies => w.status = 500
  BY <1>1, <1>2, OfHandled DEF RequestInv, LoginOf, Holds
<1>7. NoBody \in BodyType /\ NoBody.kind = "none"
  BY DEF NoBody, BodyType
<1> HIDE DEF h, w
<1>8. EndedAs(r, w.status, NoBody)
  BY <1>1, <1>2, <1>3, <1>4, <1>5, <1>7, OfFlush DEF w
<1>9. RequestInv(r)'
  BY <1>1, <1>2, <1>4, <1>6, <1>7, <1>8, EndKeeps
<1> QED BY <1>2, <1>4, <1>9

\* No route.
LEMMA KeepNoRoute ==
  ASSUME TypeOK, OwnContext, NEW r \in Request, RequestInv(r), NoRoute(r),
         registry' = registry, restarts' = restarts, bodies' = bodies
  PROVE  RequestInv(r)' /\ header'[r].csrf = header[r].csrf /\ header'[r].sid = header[r].sid
<1> DEFINE h == [header[r] EXCEPT !.frame = TRUE]
           w == Noted(context[slot[r]], 404)
<1>1. r \in Handled /\ stage[r] = "unrouted" /\ header[r] \in HeaderType
  BY DEF NoRoute, Handled, Waiting, Over, TypeOK
<1>2. h \in HeaderType /\ h.csrf = header[r].csrf /\ h.sid = header[r].sid
  BY <1>1 DEF HeaderType
<1>3. w \in ContextType /\ w.written = context[slot[r]].written /\ w.status = 404
  BY <1>1, OfHandled DEF Noted, ContextType
<1>4. header' = [header EXCEPT ![r] = h] /\ header'[r] = h
  BY DEF NoRoute, TypeOK
<1>5. Flush(r, w, h, Text, answer) /\ GiveBack(r)
  BY <1>4 DEF NoRoute, Writer
<1>6. r \notin bodies
  BY <1>1 DEF RequestInv, Holds
<1> HIDE DEF h, w
<1>7. EndedAs(r, 404, Text)
  <2>1. EndedAs(r, w.status, Text)
    BY <1>1, <1>2, <1>3, <1>4, <1>5, TextBody, OfFlush
  <2> QED BY <1>3, <2>1
<1>8. RequestInv(r)'
  BY <1>1, <1>6, <1>7, TextBody, EndKeeps
<1> QED BY <1>2, <1>4, <1>8

\* The other address has a route.
LEMMA KeepOtherSlash ==
  ASSUME TypeOK, OwnContext, NEW r \in Request, RequestInv(r), OtherSlash(r),
         registry' = registry, restarts' = restarts, bodies' = bodies
  PROVE  RequestInv(r)' /\ header'[r].csrf = header[r].csrf /\ header'[r].sid = header[r].sid
<1> DEFINE h == [header[r] EXCEPT !.to = "other"]
           w == Noted(context[slot[r]], 301)
<1>1. r \in Handled /\ stage[r] = "slash" /\ header[r] \in HeaderType
  BY DEF OtherSlash, Handled, Waiting, Over, TypeOK
<1>2. ask[r].handler = "OtherSlash" /\ ask[r].method = "GET"
  <2>1. ask[r].handler = "OtherSlash"
    BY <1>1, OfHandled DEF StagesOf, AskType, Handlers
  <2>2. <<ask[r].method, ask[r].handler>> \in Routes \cup {<<"GET", "NoRoute">>, <<"GET", "OtherSlash">>}
    BY <1>1, OfHandled DEF RequestInv, OnRoute
  <2> QED BY <2>1, <2>2, RoutesAssumption DEF Handlers
<1>3. h \in HeaderType /\ h.csrf = header[r].csrf /\ h.sid = header[r].sid /\ h.frame = header[r].frame
  BY <1>1 DEF HeaderType
<1>4. w \in ContextType /\ w.written = context[slot[r]].written /\ w.status = 301
  BY <1>1, OfHandled DEF Noted, ContextType
<1>5. header' = [header EXCEPT ![r] = h] /\ header'[r] = h
  BY DEF OtherSlash, TypeOK
<1>6. Flush(r, w, h, Text, answer) /\ GiveBack(r)
  BY <1>2, <1>5 DEF OtherSlash, Writer
<1>7. r \notin bodies /\ ~header[r].frame
  BY <1>1, OfHandled DEF RequestInv, Holds
<1> HIDE DEF h, w
<1>8. EndedAs(r, 301, Text)
  <2>1. EndedAs(r, w.status, Text)
    BY <1>1, <1>3, <1>4, <1>5, <1>6, TextBody, OfFlush
  <2> QED BY <1>4, <2>1
<1>9. RequestInv(r)'
  BY <1>1, <1>2, <1>3, <1>5, <1>7, <1>8, TextBody, EndKeeps
<1> QED BY <1>3, <1>5, <1>9

\* The handler panicked.
LEMMA KeepRecover ==
  ASSUME TypeOK, OwnContext, NEW r \in Request, RequestInv(r), Recover(r),
         registry' = registry, restarts' = restarts, bodies' = bodies
  PROVE  RequestInv(r)' /\ header'[r].csrf = header[r].csrf /\ header'[r].sid = header[r].sid
<1> DEFINE h == header[r]
           w == Noted(context[slot[r]], 500)
<1>1. r \in Handled /\ stage[r] = "panicked" /\ h \in HeaderType
  BY DEF Recover, Handled, Waiting, Over, TypeOK
<1>2. w \in ContextType /\ w.written = context[slot[r]].written /\ w.status = 500
  BY <1>1, OfHandled DEF Noted, ContextType
<1>3. header' = [header EXCEPT ![r] = h] /\ header'[r] = h
  BY DEF Recover, TypeOK
<1>4. Flush(r, w, h, NoBody, answer) /\ GiveBack(r)
  BY <1>3 DEF Recover, Writer
<1>5. r \notin bodies /\ ~h.frame
  BY <1>1, OfHandled DEF RequestInv, Holds
<1>6. NoBody \in BodyType /\ NoBody.kind = "none"
  BY DEF NoBody, BodyType
<1>7. EndedAs(r, 500, NoBody)
  <2> HIDE DEF w, h
  <2>1. h = header[r]
    BY DEF h
  <2>2. EndedAs(r, w.status, NoBody)
    BY <1>1, <1>2, <1>3, <1>4, <1>6, <2>1, OfFlush, ZenonT(40)
  <2> QED BY <1>2, <2>2
<1>8. RequestInv(r)'
  BY <1>1, <1>3, <1>5, <1>6, <1>7, EndKeeps
<1> QED BY <1>3, <1>8

\* The failure handler returned.
LEMMA KeepRefused ==
  ASSUME TypeOK, OwnContext, NEW r \in Request, RequestInv(r), Refused(r),
         registry' = registry, restarts' = restarts, bodies' = bodies
  PROVE  RequestInv(r)' /\ header'[r].csrf = header[r].csrf /\ header'[r].sid = header[r].sid
<1>1. stage[r] = "refused" /\ answer[r] # None /\ header' = header
  BY DEF Refused, RequestInv, InStep
<1>2. EndedAs(r, 400, NoBody)
  BY <1>1 DEF Refused, EndedAs, Finish, ctxClear, TypeOK
<1>3. RequestInv(r)'
  BY <1>1, <1>2, EndKeeps
<1> QED BY <1>1, <1>3

-----------------------------------------------------------------------------
(* The invariant of every request. *)

\* A handler's step keeps its context.
LEMMA HandleKeepsContext ==
  ASSUME TypeOK, OwnContext, NEW r \in Request, RequestInv(r), Handle(r)
  PROVE  /\ r \in Handled /\ stage'[r] \in {"show", "keep", "destroy", "session", "read", "returned", "panicked"}
         /\ slot' = slot /\ ginPool' = ginPool
         /\ context'[slot[r]].owner = context[slot[r]].owner
         /\ context'[slot[r]].errors \subseteq context[slot[r]].errors \cup {r}
<1> DEFINE Same ==
       /\ stage'[r] \in {"show", "keep", "destroy", "session", "read", "returned", "panicked"}
       /\ slot' = slot /\ ginPool' = ginPool
       /\ context'[slot[r]].owner = context[slot[r]].owner
       /\ context'[slot[r]].errors \subseteq context[slot[r]].errors \cup {r}
<1>1. r \in Handled /\ r \in DOMAIN stage
  <2>1. stage[r] \in {"session", "show", "form", "Create", "Authenticate", "keep", "destroy", "Proxy", "read", "File"}
    BY DEF Handle, LoadSession, Top, ShowForm, Create, CheckPassword, KeepUser, Logout, Fetch, Read, File
  <2> QED BY <2>1 DEF Handled, Waiting, Over, TypeOK
<1>2. ASSUME NEW code \in Nat, NEW body \in BodyType, Answers(r, code, body) PROVE Same
  BY <1>1, <1>2, OfAnswers
<1>3. ASSUME NEW h \in HeaderType, Redirect(r, h) 
      PROVE  /\ context'[slot[r]].owner = context[slot[r]].owner
             /\ context'[slot[r]].errors \subseteq context[slot[r]].errors \cup {r}
  BY <1>1, <1>3, OfRedirect
<1>4. CASE LoadSession(r)
  <2>1. PICK s : Moved(r, IF s.bad THEN "panicked" ELSE AfterSession(ask[r].handler))
    BY <1>4 DEF LoadSession, GetSession
  <2>2. ask[r].handler \in {"Top", "Authenticate", "Logout"}
    BY <1>1, <1>4, OfHandled DEF LoadSession, StagesOf, AskType, Handlers
  <2>3. stage'[r] \in {"show", "keep", "destroy", "panicked"}
    BY <1>1, <2>1, <2>2 DEF AfterSession
  <2> QED BY <1>1, <1>4, <2>3 DEF LoadSession
<1>5. CASE Top(r)
  <2>1. PICK who \in Shown(r) : Answers(r, 200, TopPage(who))
    BY <1>5 DEF Top
  <2>2. TopPage(who) \in BodyType
    BY Types DEF Shown
  <2> QED BY <1>1, <1>2, <2>1, <2>2
<1>6. CASE ShowForm(r)
  <2>1. Form(tokens[r]) \in BodyType
    BY <1>1, OfHandled, Types DEF TypeOK
  <2> QED BY <1>1, <1>2, <1>6, <2>1 DEF ShowForm
<1>7. CASE Create(r) \/ CheckPassword(r)
  <2>1. [header[r] EXCEPT !.to = "/login"] \in HeaderType
    BY TypesHeader DEF TypeOK
  <2>2. stage'[r] \in {"returned", "session"} /\ slot' = slot /\ ginPool' = ginPool
    BY <1>1, <1>7 DEF Create, CheckPassword
  <2>3. Redirect(r, [header[r] EXCEPT !.to = "/login"]) \/ context' = context
    BY <1>7 DEF Create, CheckPassword
  <2> QED BY <1>1, <1>3, <2>1, <2>2, <2>3
<1>8. ASSUME NEW s \in SessionType, Save(r, s, Redirects(r, s)) PROVE Same
  <2>1. CASE Redirects(r, s)
    BY <1>1, <1>3, <2>1, TypeSetCookie DEF Redirects
  <2>2. CASE Moved(r, "panicked") /\ UNCHANGED <<ginPool, slot, context, header, answer>>
    BY <1>1, <2>2
  <2> QED BY <1>8, <2>1, <2>2 DEF Save
<1>9. CASE KeepUser(r) \/ Logout(r)
  <2>1. registry[r] \in SessionType /\ found[r] \in Id \cup {NoUser, None}
    BY <1>9 DEF KeepUser, Logout, TypeOK, RequestInv, Holds
  <2>2. [registry[r] EXCEPT !.values = SetValue(@, KeyWritten, found[r])] \in SessionType
    BY <2>1 DEF SessionType, SetValue
  <2>3. [registry[r] EXCEPT !.age = -1] \in SessionType
    BY <2>1 DEF SessionType
  <2> QED BY <1>1, <1>8, <1>9, <2>2, <2>3 DEF KeepUser, Logout
<1>10. CASE Fetch(r)
  BY <1>1, <1>10, OfAbort DEF Fetch
<1>11. CASE Read(r)
  BY <1>1, <1>2, <1>11, OfAbort, TextBody DEF Read
<1>12. CASE File(r)
  <2>1. ASSUME context' = [context EXCEPT ![slot[r]] = Noted(@, 304)], Moved(r, "returned"),
               UNCHANGED <<ask, tokens, ginPool, slot, header, answer>>
        PROVE  Same
    BY <1>1, <2>1, InContext DEF Noted, ContextType
  <2> QED BY <1>1, <1>2, <1>12, <2>1, TextBody, SMTT(30) DEF File
<1> QED BY <1>1, <1>4, <1>5, <1>6, <1>7, <1>9, <1>10, <1>11, <1>12 DEF Handle

\* A step of r keeps OwnContext.
LEMMA ContextStep ==
  ASSUME TypeOK, TypeOK', OwnContext, NEW r \in Request, RequestInv(r), RequestStep(r)
  PROVE  OwnContext' /\ slot'[r] \in {slot[r], None} \cup Unheld
<1>1. Others(r)
  BY OthersStay
<1>2. CASE Ask(r)
  <2>1. stage[r] = "new" /\ stage'[r] = "asked" /\ slot' = slot /\ ginPool' = ginPool
    BY <1>2 DEF Ask, TypeOK
  <2>2. r \notin Handled /\ r \notin Handled'
    BY <2>1 DEF Handled, Waiting
  <2>3. slot[r] = None
    BY <2>2 DEF OwnContext
  <2> QED BY <1>1, <2>1, <2>2, <2>3, OwnStep
<1>3. CASE Serve(r)
  <2>1. stage[r] = "asked" /\ slot[r] = None
    BY <1>3 DEF Serve, ServeHTTP, OwnContext, Handled, Waiting
  <2>2. CASE Dispatch(r, FirstStep(ask[r].handler))
    <3>1. PICK c \in Unheld : /\ slot' = [slot EXCEPT ![r] = c]
                              /\ context' = [context EXCEPT ![c] = Reset(@, r)]
                              /\ ginPool' = ginPool \ {c}
      BY <2>2 DEF Dispatch
    <3>2. slot'[r] = c /\ c # None /\ c \in Context
      BY <3>1, NoneAssumption DEF TypeOK, Unheld
    <3>3. context'[c].owner = r /\ context'[c].errors = {}
      BY <3>1, <3>2 DEF TypeOK, Reset, NewContext
    <3>4. r \in Handled'
      <4>1. stage'[r] = FirstStep(ask[r].handler)
        BY <2>2 DEF Dispatch, TypeOK
      <4>2. ask[r] \in AskType
        BY <2>1 DEF RequestInv, OnRoute, TypeOK
      <4> QED BY <4>1, <4>2 DEF Handled, FirstStep, AskType, Handlers, Waiting, Over
    <3> QED BY <1>1, <3>1, <3>2, <3>3, <3>4, OwnStep
  <2>3. CASE Refuse(r)
    <3>1. stage'[r] = "refused" /\ slot' = slot /\ ginPool' = ginPool
      BY <2>3 DEF Refuse, TypeOK
    <3>2. r \notin Handled'
      BY <3>1 DEF Handled
    <3> QED BY <1>1, <2>1, <3>1, <3>2, OwnStep
  <2> QED BY <1>3, <2>2, <2>3 DEF Serve, ServeHTTP
<1>4. CASE Handle(r)
  <2>1. /\ r \in Handled /\ stage'[r] \in {"show", "keep", "destroy", "session", "read", "returned", "panicked"}
        /\ slot' = slot /\ ginPool' = ginPool
        /\ context'[slot[r]].owner = context[slot[r]].owner
        /\ context'[slot[r]].errors \subseteq context[slot[r]].errors \cup {r}
    BY <1>4, HandleKeepsContext
  <2>2. r \in Handled'
    BY <2>1 DEF Handled, Waiting, Over
  <2>3. slot[r] # None /\ slot[r] \notin ginPool /\ context[slot[r]].owner = r /\ context[slot[r]].errors \subseteq {r}
    BY <2>1 DEF OwnContext
  <2> QED BY <1>1, <2>1, <2>2, <2>3, OwnStep
<1>5. CASE Deliver(r)
  <2>1. stage'[r] = "done" /\ slot'[r] = None /\ ginPool' \subseteq ginPool \cup {slot[r]}
    <3>1. Ends(r) /\ (stage[r] = "refused" => slot[r] = None)
      BY <1>5 DEF Deliver, OwnContext, Handled
    <3> QED BY <3>1 DEF Ends, Return, NoRoute, OtherSlash, Recover, Refused, GiveBack, Finish, TypeOK
  <2>2. r \notin Handled'
    BY <2>1 DEF Handled, Over
  <2> QED BY <1>1, <2>1, <2>2, OwnStep
<1> QED BY <1>2, <1>3, <1>4, <1>5 DEF RequestStep

\* The request of a step of its own.
LEMMA RequestKeeps ==
  ASSUME TypeOK, OwnContext, NEW r \in Request, RequestInv(r), RequestStep(r),
         ask[r] # None /\ ask[r].sid # None => ask[r].sid.id \in Id
  PROVE  RequestInv(r)' /\ (Deliver(r) => header'[r].csrf = header[r].csrf /\ header'[r].sid = header[r].sid)
<1>1. CASE Handle(r)
  <2>1. r \in Handled /\ ask[r] # None
    BY <1>1, HandleKeepsContext, OfHandled
  <2>2. ~Deliver(r)
    <3>1. stage'[r] # "done"
      BY <1>1, HandleKeepsContext
    <3>2. Deliver(r) => stage'[r] = "done"
      BY DEF Deliver, Ends, Return, NoRoute, OtherSlash, Recover, Refused, GiveBack, Finish, TypeOK
    <3> QED BY <3>1, <3>2
  <2> QED BY <1>1, <2>1, <2>2, KeepLoadSession, KeepTop, KeepShowForm, KeepCreate, KeepCheckPassword,
             KeepKeepUser, KeepLogout, KeepFetch, KeepRead, KeepFile DEF Handle
<1>2. CASE Deliver(r)
  <2>1. registry' = registry /\ restarts' = restarts /\ bodies' = bodies /\ Ends(r)
    BY <1>2 DEF Deliver, sessionVars, dataVars
  <2> QED BY <2>1, KeepReturn, KeepNoRoute, KeepOtherSlash, KeepRecover, KeepRefused DEF Ends
<1>3. CASE Ask(r) \/ Serve(r)
  <2>1. ~Deliver(r)
    BY <1>3 DEF Deliver, Ends, Return, NoRoute, OtherSlash, Recover, Refused, Ask, Serve, ServeHTTP
  <2> QED BY <1>3, <2>1, KeepAsk, KeepServe
<1> QED BY <1>1, <1>2, <1>3 DEF RequestStep

\* A step of r keeps the types.
LEMMA TypeStep ==
  ASSUME TypeOK, OwnContext, NEW r \in Request, RequestInv(r), RequestStep(r),
         ask[r] # None /\ ask[r].sid # None => ask[r].sid.id \in Id
  PROVE  TypeOK'
<1>1. CASE Ask(r)
  BY <1>1, TypeAsk
<1>2. CASE Serve(r)
  <2>1. ask[r] # None
    BY <1>2 DEF Serve, ServeHTTP, RequestInv, OnRoute
  <2> QED BY <1>2, <2>1, TypeServe
<1>3. CASE Handle(r)
  <2>1. r \in Handled
    BY <1>3, HandleKeepsContext
  <2>2. /\ slot[r] # None /\ tokens[r] # None /\ ask[r] # None /\ OnRoute(r)
        /\ stage[r] \in {"keep", "destroy"} => registry[r] # None
    BY <2>1, OfHandled DEF RequestInv, Holds
  <2>3. (KeepUser(r) \/ Logout(r)) => registry[r] # None
    BY <2>2 DEF KeepUser, Logout
  <2> QED BY <1>3, <2>2, <2>3, TypeLoadSession, TypeTop, TypeShowForm, TypeCreate, TypeCheckPassword,
             TypeKeepUser, TypeLogout, TypeFetch, TypeRead, TypeFile DEF Handle
<1>4. CASE Deliver(r)
  <2>1. Ends(r) /\ ask' = ask
    BY <1>4 DEF Deliver, Ends, Return, NoRoute, OtherSlash, Recover, Refused, GiveBack, Finish
  <2>2. /\ stage[r] \in {"returned", "unrouted", "slash", "panicked", "refused"}
    BY <2>1 DEF Ends, Return, NoRoute, OtherSlash, Recover, Refused
  <2>3. ask[r] # None /\ ask[r] \in AskType
    BY <2>2 DEF RequestInv, OnRoute, TypeOK
  <2>4. stage[r] # "refused" => slot[r] # None
    BY <2>2 DEF OwnContext, Handled, Waiting, Over
  <2>5. TokenOf(r) \in Token
    BY <2>3 DEF TokenOf, AskType, Token
  <2>6. answer'[r] # None /\ answer'[r].body.kind = "form" => answer'[r].body.value = TokenOf(r)
    <3>1. TokenSent(r)'
      BY RequestKeeps DEF RequestInv
    <3>2. TokenOf(r)' = TokenOf(r)
      BY <2>1 DEF TokenOf
    <3> QED BY <3>1, <3>2 DEF TokenSent
  <2> QED BY <1>4, <2>3, <2>4, <2>5, <2>6, TypeDeliver
<1> QED BY <1>1, <1>2, <1>3, <1>4 DEF RequestStep

\* Time changes no request.
LEMMA TickKeeps ==
  ASSUME TypeOK, OwnContext, Tick PROVE OwnContext' /\ \A r \in Request : RequestInv(r) => RequestInv(r)'
<1>1. /\ UNCHANGED <<httpVars, maxAge, registry, dataVars, restarts>>
      /\ Handled' = Handled
  BY DEF Tick, httpVars, Handled
<1>2. OwnContext'
  BY <1>1 DEF OwnContext, httpVars
<1>3. ASSUME NEW r \in Request, RequestInv(r) PROVE RequestInv(r)'
  <2> USE <1>1, <1>3 DEF httpVars, dataVars, RequestInv
  <2>1. OnRoute(r)' /\ InStep(r)'
    BY DEF OnRoute, InStep
  <2>2. FrameOf(r)' /\ LoginOf(r)' /\ Holds(r)'
    BY DEF FrameOf, LoginOf, Holds
  <2>3. TopOf(r)' /\ TokenSent(r)' /\ SessionOf(r)'
    BY DEF TopOf, TokenSent, TokenOf, SessionOf
  <2> QED BY <2>1, <2>2, <2>3
<1> QED BY <1>2, <1>3

\* A request under way is lost when the process dies.
LEMMA RestartKeeps ==
  ASSUME TypeOK, OwnContext, Restart PROVE OwnContext' /\ \A r \in Request : RequestInv(r) => RequestInv(r)'
<1>1. /\ \A r \in Request : stage'[r] = IF stage[r] \in {"new", "done"} THEN stage[r] ELSE "lost"
      /\ \A r \in Request : tokens'[r] = None /\ slot'[r] = None
      /\ ask' = ask /\ header' = header /\ answer' = answer /\ bodies' = {}
  BY DEF Restart, HttpCrash
<1>2. Handled' = {}
  BY <1>1 DEF Handled, Waiting, Over
<1>3. restarts' # 0
  BY DEF Restart, TypeOK
<1>4. OwnContext'
  BY <1>1, <1>2 DEF OwnContext
<1>5. ASSUME NEW r \in Request, RequestInv(r) PROVE RequestInv(r)'
  <2> USE <1>1, <1>2, <1>3, <1>5 DEF RequestInv, Waiting, Over
  <2>1. OnRoute(r)'
    BY DEF OnRoute
  <2>2. InStep(r)'
    BY DEF InStep
  <2>3. FrameOf(r)' /\ LoginOf(r)' /\ Holds(r)'
    BY DEF FrameOf, LoginOf, Holds
  <2>4. TopOf(r)' /\ TokenSent(r)'
    BY DEF TopOf, TokenSent, TokenOf
  <2>5. SessionOf(r)'
    BY DEF SessionOf
  <2> QED BY <2>1, <2>2, <2>3, <2>4, <2>5
<1> QED BY <1>4, <1>5

\* No request has been asked.
LEMMA InitRequests == ASSUME Init PROVE OwnContext /\ \A r \in Request : RequestInv(r)
<1>1. /\ \A r \in Request : stage[r] = "new" /\ ask[r] = None /\ tokens[r] = None /\ slot[r] = None
                            /\ header[r] = EmptyHeader /\ answer[r] = None
      /\ bodies = {}
  BY DEF Init, HttpInit
<1>2. Handled = {}
  BY <1>1 DEF Handled, Waiting
<1>3. OwnContext
  BY <1>1, <1>2 DEF OwnContext
<1>4. ASSUME NEW r \in Request PROVE RequestInv(r)
  <2> USE <1>1, <1>2 DEF Waiting, Over
  <2>1. OnRoute(r) /\ InStep(r) /\ FrameOf(r)
    <3>1. OnRoute(r) /\ FrameOf(r)
      BY DEF OnRoute, FrameOf
    <3>2. ~header[r].frame
      BY DEF EmptyHeader
    <3>3. InStep(r)
      BY <3>2 DEF InStep
    <3> QED BY <3>1, <3>3
  <2>2. LoginOf(r) /\ Holds(r) /\ TopOf(r)
    BY DEF LoginOf, Holds, TopOf
  <2>3. TokenSent(r) /\ SessionOf(r)
    BY DEF TokenSent, SessionOf, EmptyHeader
  <2> QED BY <2>1, <2>2, <2>3 DEF RequestInv
<1> QED BY <1>3, <1>4

-----------------------------------------------------------------------------
(* Tokens. *)

\* The handlers and the end of a request change neither the questions nor its token.
LEMMA HeaderTokenStays ==
  ASSUME TypeOK, OwnContext, NEW r \in Request, RequestInv(r), RequestInv(r)', Handle(r)
  PROVE  /\ ask' = ask /\ jar' = jar /\ page' = page
         /\ \A q \in Request : header'[q].csrf = header[q].csrf
<1>1. ask' = ask /\ jar' = jar /\ page' = page
  BY DEF Handle, LoadSession, GetSession, Top, ShowForm, Answers, Create, CheckPassword, KeepUser,
         Logout, Fetch, Read, File, browserVars
<1>2. stage[r] \notin Waiting \cup Over /\ stage'[r] \notin Waiting \cup {"lost"}
  BY HandleKeepsContext DEF Handled, Waiting
<1>3. header'[r].csrf = header[r].csrf
  BY <1>1, <1>2 DEF RequestInv, TokenSent, Over
<1>4. Others(r)
  BY OthersStay DEF RequestStep
<1> QED BY <1>1, <1>3, <1>4 DEF Others

\* What a browser asks with.
LEMMA OfAsk ==
  ASSUME TypeOK, NEW r \in Request, Ask(r)
  PROVE  /\ ask'[r] # None
         /\ \E b \in Browser : /\ ask'[r].browser = b
                              /\ ask'[r].csrf = jar[b].csrf /\ ask'[r].sid = jar[b].sid
<1>1. PICK b \in Browser, route \in Routes \cup {<<"GET", "NoRoute">>, <<"GET", "OtherSlash">>},
           e \in Email \cup {None}, p \in Password \cup {None} :
        /\ (e # None) = (route[2] \in {"Create", "Authenticate"})
        /\ (p # None) = (route[2] \in {"Create", "Authenticate"})
        /\ ask' = [ask EXCEPT ![r] =
                     [browser |-> b, method |-> route[1], handler |-> route[2],
                      csrf |-> jar[b].csrf, sid |-> jar[b].sid, form |-> page[b],
                      email |-> e, password |-> p]]
  BY Zenon DEF Ask
<1> DEFINE asked == [browser |-> b, method |-> route[1], handler |-> route[2],
                     csrf |-> jar[b].csrf, sid |-> jar[b].sid, form |-> page[b],
                     email |-> e, password |-> p]
<1>2. ask'[r] = asked
  BY <1>1 DEF TypeOK
<1>3. asked \in AskType
  <2>1. route[1] \in {"GET", "POST"} /\ route[2] \in Handlers \cup {"NoRoute", "OtherSlash"}
    BY RoutesAssumption
  <2>2. jar[b] \in [csrf : Token \cup {None}, sid : CookieType \cup {None}] /\ page[b] \in Token \cup {None}
    BY DEF TypeOK
  <2> QED BY <2>1, <2>2 DEF AskType
<1>4. asked # None
  BY <1>3, AbsenceAssumption
<1>5. asked.browser = b /\ asked.csrf = jar[b].csrf /\ asked.sid = jar[b].sid
  OBVIOUS
<1> HIDE DEF asked
<1> QED BY <1>2, <1>4, <1>5

\* The tokens stay if neither questions, cookies nor forms change, and no token is
\* taken from a header.
LEMMA TokensStay ==
  ASSUME TokensOfBrowsers, ask' = ask,
         \A b \in Browser : jar'[b].csrf = jar[b].csrf /\ page'[b] = page[b],
         \A q \in Request : header[q].csrf # None => header'[q].csrf # None,
         TypeOK
  PROVE  TokensOfBrowsers'
<1>1. \A b \in Browser : Issued(b) \subseteq Issued(b)'
  BY DEF Issued
<1>2. \A b \in Browser : Mine(b) \subseteq Mine(b)'
  BY <1>1 DEF Mine
<1>3. \A q \in Request : ask[q] # None => ask[q].browser \in Browser
  BY DEF TypeOK, AskType
<1> QED BY <1>2, <1>3 DEF TokensOfBrowsers

\* A step of r keeps the tokens of the browsers.
LEMMA TokensStep ==
  ASSUME TypeOK, OwnContext, \A q \in Request : RequestInv(q), NEW r \in Request, RequestInv(r)',
         TokensOfBrowsers, RequestStep(r), TypeOK',
         Deliver(r) => header'[r].csrf = header[r].csrf
  PROVE  TokensOfBrowsers'
<1>1. Others(r)
  BY OthersStay
<1>2. CASE Ask(r)
  <2>1. jar' = jar /\ page' = page /\ header' = header /\ stage[r] = "new"
    BY <1>2 DEF Ask, browserVars
  <2>2. ask[r] = None /\ header[r].csrf = None
    <3>1. OnRoute(r) /\ InStep(r)
      BY DEF RequestInv
    <3> QED BY <2>1, <3>1 DEF OnRoute, InStep, Waiting, EmptyHeader
  <2>3. \E b \in Browser : ask'[r] # None /\ ask'[r].browser = b /\ ask'[r].csrf = jar[b].csrf
    BY <1>2, OfAsk
  <2>4. \A b \in Browser : Issued(b)' = Issued(b) /\ Mine(b)' = Mine(b)
    BY <1>1, <2>1, <2>2, ZenonT(40) DEF Others, Issued, Mine
  <2>5. \A q \in Request \ {r} : ask'[q] = ask[q] /\ (ask[q] # None => ask[q].browser \in Browser)
    BY <1>1 DEF Others, TypeOK, AskType
  <2> QED BY <2>1, <2>3, <2>4, <2>5 DEF TokensOfBrowsers
<1>3. CASE Serve(r)
  <2>1. stage[r] = "asked" /\ ask' = ask /\ jar' = jar /\ page' = page
    BY <1>3 DEF Serve, ServeHTTP, browserVars
  <2>2. header[r].csrf = None
    BY <2>1 DEF RequestInv, InStep, Waiting, EmptyHeader
  <2> QED BY <1>1, <2>1, <2>2, TokensStay DEF Others
<1>4. CASE Handle(r)
  BY <1>4, HeaderTokenStays, TokensStay
<1>5. CASE Deliver(r)
  <2>1. \A q \in Request : header'[q].csrf = header[q].csrf
    BY <1>1, <1>5 DEF Others
  <2>2. ask' = ask
    BY <1>5 DEF Deliver, Ends, Return, NoRoute, OtherSlash, Recover, Refused, GiveBack, Finish
  <2>3. CASE UNCHANGED browserVars
    BY <2>1, <2>2, <2>3, TokensStay DEF browserVars
  <2>4. CASE ~ UNCHANGED browserVars
    <3> DEFINE h == answer'[r].header
    <3>0. ask[r] # None /\ ask[r] \in AskType
      <4>1. stage[r] # "new"
        BY <1>5 DEF Deliver, Ends, Return, NoRoute, OtherSlash, Recover, Refused
      <4>2. ask[r] # None
        BY <4>1 DEF RequestInv, OnRoute
      <4> QED BY <4>2 DEF TypeOK
    <3>1. PICK b \in Browser : b = ask[r].browser /\ ask[r] # None
      BY <3>0 DEF AskType
    <3>2. /\ answer'[r] # None
          /\ jar' = [jar EXCEPT ![b] = Received(jar[b], h)]
          /\ page' = [page EXCEPT ![b] =
                        IF answer'[r].body.kind = "form" THEN answer'[r].body.value ELSE page[b]]
      BY <1>5, <2>4, <3>1 DEF Deliver
    <3>3. h.csrf = header[r].csrf
      BY <2>1, <3>2 DEF RequestInv, InStep
    <3>4. TokenOf(r)' = TokenOf(r)
      BY <2>2 DEF TokenOf
    <3>5. answer'[r].body.kind = "form" => answer'[r].body.value = TokenOf(r)
      BY <3>2, <3>4 DEF RequestInv, TokenSent
    <3>6. jar'[b].csrf = IF header[r].csrf = None THEN jar[b].csrf ELSE header[r].csrf
      BY <3>1, <3>2, <3>3 DEF TypeOK, Received
    <3>7. page'[b] \in {page[b], TokenOf(r)}
      BY <3>1, <3>2, <3>5 DEF TypeOK
    <3>8. \A a \in Browser \ {b} : jar'[a] = jar[a] /\ page'[a] = page[a]
      BY <3>2 DEF TypeOK
    <3>9. \A a \in Browser : Issued(a)' = Issued(a)
      BY <2>1, <2>2 DEF Issued
    <3>10. header[r].csrf \in {None, r} /\ (header[r].csrf # None => ask[r].csrf = None)
      BY DEF RequestInv, TokenSent
    <3>11. header[r].csrf = IF ask[r].csrf = None THEN r ELSE None
      <4>1. stage[r] \notin Waiting \cup {"lost"}
        BY <1>5 DEF Deliver, Ends, Return, NoRoute, OtherSlash, Recover, Refused, Waiting
      <4> QED BY <4>1 DEF RequestInv, TokenSent
    <3>12. r # None /\ r # b
      BY <3>1, NoneAssumption, IdsAssumption
    <3> HIDE DEF h
    <3>13. CASE ask[r].csrf = None
      <4>1. header[r].csrf = r /\ jar'[b].csrf = r /\ TokenOf(r) = r
        BY <3>6, <3>11, <3>12, <3>13 DEF TokenOf
      <4>2. jar[b].csrf # b
        BY <3>1, <3>12, <3>13, NoneAssumption DEF TokensOfBrowsers
      <4>3. r \in Issued(b)
        BY <3>1, <3>12, <4>1 DEF Issued
      <4>4. Mine(b)' = Issued(b) /\ Mine(b) = Issued(b)
        BY <3>1, <3>9, <3>12, <4>1, <4>2 DEF Mine
      <4>5. \A a \in Browser \ {b} : Mine(a)' = Mine(a)
        BY <3>8, <3>9 DEF Mine
      <4>6. \A a \in Browser : /\ jar'[a].csrf \in Mine(a)' \cup {None}
                               /\ page'[a] \in Mine(a)' \cup {None}
                               /\ page'[a] # None => jar'[a].csrf # None
        BY <3>1, <3>7, <3>8, <3>12, <4>1, <4>3, <4>4, <4>5 DEF TokensOfBrowsers
      <4>7. ASSUME NEW q \in Request, ask[q] # None, NEW a \in Browser, a = ask[q].browser
            PROVE  /\ ask[q].csrf \in Mine(a)' \cup {None}
                   /\ ask[q].csrf # None => jar'[a].csrf # None
                   /\ jar'[a].csrf = a => ask[q].csrf = a
        BY <3>1, <3>8, <3>12, <4>1, <4>4, <4>5, <4>7 DEF TokensOfBrowsers
      <4>8. \A q \in Request : ask[q] # None => ask[q].browser \in Browser
        BY DEF TypeOK, AskType
      <4> QED BY <2>2, <4>6, <4>7, <4>8 DEF TokensOfBrowsers
    <3>14. CASE ask[r].csrf # None
      <4>1. header[r].csrf = None /\ jar'[b].csrf = jar[b].csrf /\ TokenOf(r) = ask[r].csrf
        BY <3>6, <3>11, <3>14 DEF TokenOf
      <4>2. TokenOf(r) \in Mine(b) /\ jar[b].csrf # None
        BY <3>1, <3>14, <4>1 DEF TokensOfBrowsers
      <4>3. \A a \in Browser : Mine(a)' = Mine(a) /\ jar'[a].csrf = jar[a].csrf
        BY <3>8, <3>9, <4>1 DEF Mine
      <4>4. \A q \in Request : ask[q] # None => ask[q].browser \in Browser
        BY DEF TypeOK, AskType
      <4> QED BY <2>2, <3>7, <3>8, <4>2, <4>3, <4>4 DEF TokensOfBrowsers
    <3> QED BY <3>13, <3>14
  <2> QED BY <2>3, <2>4
<1> QED BY <1>2, <1>3, <1>4, <1>5 DEF RequestStep

-----------------------------------------------------------------------------
(* Sessions. *)

\* A login that has tried to save its session stays one.
LEMMA SaveTriedStays ==
  ASSUME TypeOK, OwnContext, NEW r \in Request, RequestInv(r), RequestStep(r),
         NEW q \in Request, SaveTried(q)
  PROVE  SaveTried(q)' /\ ask'[q] = ask[q]
<1>1. CASE q # r
  BY <1>1, OthersStay DEF Others, SaveTried
<1>2. CASE q = r
  <2>1. /\ ask[r] # None /\ ask[r].handler = "Authenticate"
        /\ stage[r] \in Over \cup {"refused", "returned", "panicked"}
    BY <1>2 DEF SaveTried, RequestInv, OnRoute, StagesOf, Waiting
  <2>2. Deliver(r)
    BY <2>1 DEF RequestStep, Ask, Serve, ServeHTTP, Handle, LoadSession, Top, ShowForm, Create, CheckPassword,
       KeepUser, Logout, Fetch, Read, File, Over
  <2>3. stage'[r] = "done" /\ ask' = ask
    BY <2>2 DEF Deliver, Ends, Return, NoRoute, OtherSlash, Recover, Refused, GiveBack, Finish, TypeOK
  <2> QED BY <1>2, <2>1, <2>3 DEF SaveTried, Waiting
<1> QED BY <1>1, <1>2

\* An id stays with its browser.
LEMMA OwnedStays ==
  ASSUME TypeOK, OwnContext, NEW r \in Request, RequestInv(r), RequestStep(r), NEW b
  PROVE  Owned(b) \subseteq Owned(b)'
BY SaveTriedStays DEF Owned

\* What KeepUser leaves: id is the session's, the one of the cookie or a new one.
LEMMA OfKeepUser ==
  ASSUME TypeOK, OwnContext, NEW r \in Request, RequestInv(r), KeepUser(r),
         NEW id, id = (IF ask[r].sid = None THEN r ELSE ask[r].sid.id), id \in Id
  PROVE  /\ stage[r] = "keep" /\ stage'[r] \in {"returned", "panicked"} /\ ask' = ask
         /\ jar' = jar /\ now' = now /\ maxAge' = maxAge
         /\ \A i \in Id : i # id => store'[i] = store[i]
         /\ \/ store'[id] = store[id]
            \/ maxAge < 0 /\ store'[id] = None
            \/ maxAge >= 0 /\ store'[id] # None /\ store'[id].until = now + Ttl(maxAge)
         /\ \/ header'[r].sid = header[r].sid /\ stage'[r] = "panicked"
            \/ /\ stage'[r] = "returned" /\ header'[r].sid # None
               /\ header'[r].sid.at = now /\ header'[r].sid.age = maxAge
               /\ maxAge < 0 => header'[r].sid.id = None
               /\ maxAge >= 0 => /\ header'[r].sid.id = id
                                 /\ store'[id] # None /\ store'[id].until = now + Ttl(maxAge)
<1> DEFINE s == [registry[r] EXCEPT !.values = SetValue(@, KeyWritten, found[r])]
           kept == IF s.id = None /\ s.age >= 0 THEN [s EXCEPT !.id = NewId(r)] ELSE s
           after == IF s.age < 0 THEN Deleted(s) ELSE Saved(kept)
           h == [SetCookie(r, s) EXCEPT !.to = "/"]
<1>1. r \in Handled /\ stage[r] = "keep"
  BY DEF KeepUser, Handled, Waiting, Over
<1>2. registry[r] \in SessionType /\ found[r] \in Id \cup {NoUser, None}
  BY <1>1 DEF TypeOK, RequestInv, Holds
<1>3. s \in SessionType /\ s.id = registry[r].id /\ s.age = registry[r].age
  BY <1>2 DEF SessionType, SetValue
<1>4. /\ registry[r].id = (IF ask[r].sid = None THEN None ELSE ask[r].sid.id)
      /\ registry[r].age = maxAge
  BY <1>1 DEF RequestInv, SessionOf
<1>5. s.id = (IF ask[r].sid = None THEN None ELSE ask[r].sid.id) /\ s.age = maxAge /\ maxAge \in Int
  BY <1>3, <1>4, AgesAssumption DEF TypeOK
<1>6. None \notin Id
  BY NoneAssumption DEF Id
<1>7. Save(r, s, Redirects(r, s)) /\ ask' = ask /\ jar' = jar
  BY DEF KeepUser, browserVars
<1> HIDE DEF s
<1>8. now' = now /\ maxAge' = maxAge /\ store' \in {store, after}
  BY <1>7 DEF Save
<1>9. maxAge < 0 => \A i \in Id : after[i] = IF i = s.id THEN None ELSE store[i]
  BY <1>5 DEF Deleted
<1>10. maxAge >= 0 => kept.id = id /\ kept.age = maxAge
  BY <1>3, <1>5, <1>6 DEF SessionType, NewId
<1>11. maxAge >= 0 => /\ \A i \in Id : i # id => after[i] = store[i]
                      /\ after[id] = [values |-> kept.values, until |-> now + Ttl(maxAge)]
  <2> SUFFICES ASSUME maxAge >= 0
               PROVE  /\ \A i \in Id : i # id => after[i] = store[i]
                      /\ after[id] = [values |-> kept.values, until |-> now + Ttl(maxAge)]
    OBVIOUS
  <2>1. after = [store EXCEPT ![id] = [values |-> kept.values, until |-> now + Ttl(maxAge)]]
    <3>1. after = Saved(kept)
      BY <1>5
    <3> HIDE DEF after, kept
    <3> QED BY <1>10, <3>1 DEF Saved
  <2> HIDE DEF after, kept
  <2> QED BY <2>1 DEF TypeOK
<1>12. maxAge >= 0 => after[id] # None /\ after[id].until = now + Ttl(maxAge)
  <2> SUFFICES ASSUME maxAge >= 0 PROVE after[id] # None /\ after[id].until = now + Ttl(maxAge)
    OBVIOUS
  <2>1. kept \in SessionType /\ now \in Int /\ Ttl(maxAge) \in Int
    <3>1. kept \in SessionType
      BY <1>3, <1>5 DEF SessionType, NewId, Id
    <3> QED BY <3>1, AgesTyped
  <2>2. [values |-> kept.values, until |-> now + Ttl(maxAge)] \in RecordType
    BY <2>1 DEF RecordType, SessionType
  <2> HIDE DEF after, kept
  <2> QED BY <1>11, <2>2, AbsenceAssumption
<1>13. /\ \A i \in Id : i # id => store'[i] = store[i]
       /\ \/ store'[id] = store[id]
          \/ maxAge < 0 /\ store'[id] = None
          \/ maxAge >= 0 /\ store'[id] # None /\ store'[id].until = now + Ttl(maxAge)
  <2> HIDE DEF after, kept
  <2> QED BY <1>5, <1>6, <1>8, <1>9, <1>11, <1>12
<1>14. CASE store' = after /\ Redirects(r, s)
  <2>1. /\ h \in HeaderType /\ h.sid # None /\ h.sid.at = now /\ h.sid.age = s.age
        /\ h.sid.id = IF s.age < 0 THEN None ELSE IF s.id = None THEN NewId(r) ELSE s.id
    BY <1>3, OfSetCookie, ZenonT(40)
  <2>2. Redirect(r, h) /\ stage'[r] = "returned"
    BY <1>14 DEF Redirects, TypeOK
  <2>3. header'[r] = h
    <3> HIDE DEF h
    <3> QED BY <1>1, <2>1, <2>2, OfRedirect
  <2>4. maxAge < 0 => h.sid.id = None
    BY <1>5, <2>1
  <2>5. maxAge >= 0 => h.sid.id = id
    BY <1>5, <1>6, <2>1 DEF NewId
  <2> HIDE DEF h, after, kept
  <2> QED BY <1>1, <1>5, <1>7, <1>8, <1>12, <1>13, <1>14, <2>1, <2>2, <2>3, <2>4, <2>5
<1>15. CASE Moved(r, "panicked") /\ UNCHANGED <<ginPool, slot, context, header, answer>>
  <2>1. header'[r].sid = header[r].sid /\ stage'[r] = "panicked"
    BY <1>15 DEF TypeOK
  <2> HIDE DEF h, after, kept
  <2> QED BY <1>1, <1>7, <1>8, <1>13, <2>1
<1> QED BY <1>7, <1>14, <1>15 DEF Save

\* What Logout leaves.
LEMMA OfLogout ==
  ASSUME TypeOK, OwnContext, NEW r \in Request, RequestInv(r), Logout(r)
  PROVE  /\ stage[r] = "destroy" /\ stage'[r] \in {"returned", "panicked"} /\ ask' = ask
         /\ jar' = jar /\ now' = now /\ maxAge' = maxAge
         /\ \A i \in Id : \/ store'[i] = store[i]
                          \/ store'[i] = None /\ ask[r].sid # None /\ i = ask[r].sid.id
         /\ \/ header'[r].sid = header[r].sid /\ answer' = answer /\ stage'[r] = "panicked"
            \/ /\ stage'[r] = "returned" /\ header'[r].sid # None
               /\ header'[r].sid.at = now /\ header'[r].sid.age = -1 /\ header'[r].sid.id = None
               /\ \A i \in Id : ask[r].sid # None /\ i = ask[r].sid.id => store'[i] = None
<1> DEFINE s == [registry[r] EXCEPT !.age = -1]
           h == [SetCookie(r, s) EXCEPT !.to = "/"]
<1>1. r \in Handled /\ stage[r] = "destroy"
  BY DEF Logout, Handled, Waiting, Over
<1>2. registry[r] \in SessionType
  BY <1>1 DEF TypeOK, RequestInv, Holds
<1>3. s \in SessionType /\ s.id = registry[r].id /\ s.age = -1
  BY <1>2 DEF SessionType
<1>4. s.id = (IF ask[r].sid = None THEN None ELSE ask[r].sid.id)
  BY <1>1, <1>3 DEF RequestInv, SessionOf
<1>5. None \notin Id
  BY NoneAssumption DEF Id
<1>6. Save(r, s, Redirects(r, s)) /\ ask' = ask /\ jar' = jar
  BY DEF Logout, browserVars
<1> HIDE DEF s
<1>7. /\ now' = now /\ maxAge' = maxAge /\ store' \in {store, Deleted(s)}
      /\ \/ store' = Deleted(s) /\ Redirects(r, s)
         \/ Moved(r, "panicked") /\ UNCHANGED <<ginPool, slot, context, header, answer>>
  BY <1>3, <1>6 DEF Save
<1>8. \A i \in Id : Deleted(s)[i] = IF i = s.id THEN None ELSE store[i]
  BY DEF Deleted
<1>9. \A i \in Id : \/ store'[i] = store[i]
                    \/ store'[i] = None /\ ask[r].sid # None /\ i = ask[r].sid.id
  BY <1>4, <1>5, <1>7, <1>8
<1>10. CASE store' = Deleted(s) /\ Redirects(r, s)
  <2>1. /\ h \in HeaderType /\ h.sid # None /\ h.sid.at = now /\ h.sid.age = -1 /\ h.sid.id = None
    <3>1. /\ h \in HeaderType /\ h.sid # None /\ h.sid.at = now /\ h.sid.age = s.age
          /\ h.sid.id = IF s.age < 0 THEN None ELSE IF s.id = None THEN NewId(r) ELSE s.id
      BY <1>3, OfSetCookie, ZenonT(40)
    <3> HIDE DEF h
    <3> QED BY <1>3, <3>1
  <2>2. Redirect(r, h) /\ stage'[r] = "returned"
    BY <1>10 DEF Redirects, TypeOK
  <2>3. header'[r] = h
    <3> HIDE DEF h
    <3> QED BY <1>1, <2>1, <2>2, OfRedirect, ZenonT(40)
  <2>4. \A i \in Id : ask[r].sid # None /\ i = ask[r].sid.id => store'[i] = None
    BY <1>4, <1>8, <1>10
  <2> HIDE DEF h
  <2> QED BY <1>1, <1>6, <1>7, <1>9, <2>1, <2>2, <2>3, <2>4
<1>11. CASE Moved(r, "panicked") /\ UNCHANGED <<ginPool, slot, context, header, answer>>
  <2>1. header'[r].sid = header[r].sid /\ stage'[r] = "panicked" /\ answer' = answer
    BY <1>11 DEF TypeOK
  <2> QED BY <1>1, <1>6, <1>7, <1>9, <2>1
<1> QED BY <1>7, <1>10, <1>11

\* No other step of a handler touches the store or the session cookie.
LEMMA OfOtherHandle ==
  ASSUME TypeOK, OwnContext, NEW r \in Request, RequestInv(r), Handle(r), ~KeepUser(r), ~Logout(r)
  PROVE  /\ store' = store /\ header'[r].sid = header[r].sid /\ ask' = ask /\ jar' = jar
         /\ stage[r] \notin {"keep", "destroy"}
<1>1. /\ store' = store /\ ask' = ask /\ jar' = jar /\ stage[r] \notin {"keep", "destroy"}
  BY DEF Handle, LoadSession, GetSession, Top, ShowForm, Answers, Create, CheckPassword, Fetch, Read, File,
         sessionVars, browserVars
<1>2. CASE Create(r) \/ CheckPassword(r)
  <2>1. header[r] \in HeaderType /\ r \in DOMAIN header
    BY DEF TypeOK
  <2>2. header'[r] = header[r] \/ header'[r] = [header[r] EXCEPT !.to = "/login"]
    BY <1>2, <2>1 DEF Create, CheckPassword, Redirect
  <2> QED BY <1>1, <2>1, <2>2 DEF HeaderType
<1>3. CASE LoadSession(r) \/ Top(r) \/ ShowForm(r) \/ Fetch(r) \/ Read(r) \/ File(r)
  <2>1. header' = header
    BY <1>3 DEF LoadSession, Top, ShowForm, Answers, Fetch, Read, File, AbortWithError
  <2> QED BY <1>1, <2>1
<1> QED BY <1>2, <1>3 DEF Handle

\* Serve sets no session cookie.
LEMMA OfServe ==
  ASSUME TypeOK, NEW r \in Request, RequestInv(r), Serve(r)
  PROVE  /\ stage[r] = "asked" /\ ask[r] # None /\ ask' = ask /\ jar' = jar /\ store' = store
         /\ header'[r].sid = None
         /\ answer'[r] = None \/ answer'[r].status = 400
<1>1. stage[r] = "asked" /\ GetToken(r) /\ ask' = ask /\ jar' = jar /\ store' = store
  BY DEF Serve, ServeHTTP, sessionVars, browserVars
<1>2. ask[r] # None
  BY <1>1 DEF RequestInv, OnRoute
<1>3. header[r] = EmptyHeader /\ answer[r] = None
  BY <1>1 DEF RequestInv, InStep, Waiting
<1>4. header'[r].sid = None
  BY <1>1, <1>2, <1>3, OfGetToken
<1>5. answer'[r] = None \/ answer'[r].status = 400
  BY <1>3 DEF Serve, ServeHTTP, Dispatch, Refuse, TypeOK
<1> QED BY <1>1, <1>2, <1>4, <1>5

\* What the end of a request leaves of its cookies and the browser's.
LEMMA OfDeliver ==
  ASSUME TypeOK, OwnContext, NEW r \in Request, RequestInv(r), Deliver(r), RequestInv(r)',
         header'[r].sid = header[r].sid
  PROVE  /\ stage[r] \notin Waiting \cup Over /\ stage'[r] = "done"
         /\ ask[r] # None /\ ask[r].browser \in Browser /\ ask' = ask /\ store' = store
         /\ \A b \in Browser : \/ jar'[b].sid = jar[b].sid
                               \/ jar'[b].sid = None
                               \/ /\ b = ask[r].browser /\ jar'[b].sid = header[r].sid
                                  /\ Lives(header[r].sid, now)
         /\ answer[r] # None => answer'[r] = answer[r]
<1>1. stage[r] \notin Waiting \cup Over /\ ask' = ask /\ store' = store
  BY DEF Deliver, Ends, Return, NoRoute, OtherSlash, Recover, Refused, GiveBack, Finish, sessionVars,
     Waiting, Over
<1>2. stage'[r] = "done"
  BY DEF Deliver, Ends, Return, NoRoute, OtherSlash, Recover, Refused, GiveBack, Finish, TypeOK
<1>3. ask[r] # None /\ ask[r].browser \in Browser
  BY <1>1 DEF RequestInv, OnRoute, TypeOK, AskType, Waiting
<1>4. answer[r] # None => answer'[r] = answer[r]
  <2>1. CASE Refused(r)
    BY <2>1 DEF Refused
  <2>2. CASE ~Refused(r)
    <3>1. r \in Handled
      BY <2>2 DEF Deliver, Ends, Return, NoRoute, OtherSlash, Recover, Handled, Waiting, Over
    <3>2. answer[r] # None => context[slot[r]].written
      BY <3>1, OfHandled
    <3>3. answer[r] # None => stage[r] = "returned"
      BY <3>1 DEF RequestInv, InStep
    <3>4. answer[r] # None => Return(r)
      BY <2>2, <3>3 DEF Deliver, Ends, NoRoute, OtherSlash, Recover
    <3> QED BY <3>2, <3>4 DEF Return, Flush, Writer, noFrame, TypeOK
  <2> QED BY <2>1, <2>2
<1>5. ASSUME NEW b \in Browser
      PROVE  \/ jar'[b].sid = jar[b].sid
             \/ jar'[b].sid = None
             \/ b = ask[r].browser /\ jar'[b].sid = header[r].sid /\ Lives(header[r].sid, now)
  <2>1. CASE UNCHANGED browserVars
    BY <2>1 DEF browserVars
  <2>2. CASE ~ UNCHANGED browserVars
    <3>1. /\ answer'[r] # None
          /\ jar' = [jar EXCEPT ![ask[r].browser] = Received(jar[ask[r].browser], answer'[r].header)]
      BY <2>2 DEF Deliver
    <3>2. answer'[r].header.sid = header[r].sid
      BY <3>1 DEF RequestInv, InStep
    <3> QED BY <1>3, <3>1, <3>2 DEF TypeOK, Received
  <2> QED BY <2>1, <2>2
<1> QED BY <1>1, <1>2, <1>3, <1>4, <1>5

\* The session ids stay apart.
LEMMA SessionsStep ==
  ASSUME TypeOK, OwnContext, \A q \in Request : RequestInv(q), NEW r \in Request, RequestStep(r),
         RequestInv(r)', SessionsOfBrowsers, CookiesOfBrowsers,
         Deliver(r) => header'[r].sid = header[r].sid
  PROVE  SessionsOfBrowsers'
<1>1. Others(r)
  BY OthersStay
<1>2. \A b : Owned(b) \subseteq Owned(b)'
  BY OwnedStays
<1>3. \A q \in Request \ {r} : ask'[q] = ask[q] /\ header'[q] = header[q]
  BY <1>1 DEF Others
<1>4. ASSUME \A b \in Browser : jar'[b].sid # None => jar'[b].sid.id \in Owned(b)',
             \A b \in Browser : ask'[r] # None /\ ask'[r].browser = b =>
               /\ ask'[r].sid # None => ask'[r].sid.id \in Owned(b)'
               /\ header'[r].sid # None =>
                    \/ header'[r].sid.id = None /\ header'[r].sid.age < 0
                    \/ header'[r].sid.id \in Owned(b)'
      PROVE  SessionsOfBrowsers'
  BY <1>2, <1>3, <1>4 DEF SessionsOfBrowsers
<1>5. CASE Ask(r)
  <2>1. jar' = jar /\ header' = header /\ header[r].sid = None
    <3>1. jar' = jar /\ header' = header /\ stage[r] = "new"
      BY <1>5 DEF Ask, browserVars
    <3> QED BY <3>1 DEF RequestInv, InStep, Waiting, EmptyHeader
  <2>2. PICK b \in Browser : ask'[r].browser = b /\ ask'[r].sid = jar[b].sid
    BY <1>5, OfAsk
  <2> QED BY <1>2, <1>4, <2>1, <2>2 DEF SessionsOfBrowsers
<1>6. CASE Serve(r)
  BY <1>2, <1>4, <1>6, OfServe DEF SessionsOfBrowsers
<1>7. CASE KeepUser(r)
  <2>1. r \in Handled /\ ask[r] # None /\ ask[r].handler = "Authenticate" /\ ask[r].browser \in Browser
    <3>1. r \in Handled /\ stage[r] = "keep"
      BY <1>7 DEF KeepUser, Handled, Waiting, Over
    <3> QED BY <3>1, OfHandled DEF StagesOf, AskType, Handlers
  <2> DEFINE id == IF ask[r].sid = None THEN r ELSE ask[r].sid.id
             b0 == ask[r].browser
  <2>2. id \in Id
    BY <2>1 DEF SessionsOfBrowsers, Owned, Id
  <2>3. PICK b \in Browser, i \in Id : b = b0 /\ i = id
    BY <2>1, <2>2
  <2>4. /\ ask' = ask /\ jar' = jar /\ stage'[r] \in {"returned", "panicked"}
        /\ \/ header'[r].sid = header[r].sid
           \/ header'[r].sid.id = None /\ header'[r].sid.age < 0
           \/ header'[r].sid.id = i
    BY <1>7, <2>3, OfKeepUser, AgesAssumption DEF TypeOK
  <2>5. SaveTried(r)'
    BY <2>1, <2>4 DEF SaveTried, Waiting
  <2>6. i \in Owned(b)'
    <3>1. CASE ask[r].sid = None
      BY <2>3, <2>4, <2>5, <3>1 DEF Owned
    <3>2. CASE ask[r].sid # None
      BY <1>2, <2>1, <2>3, <3>2 DEF SessionsOfBrowsers
    <3> QED BY <3>1, <3>2
  <2> QED BY <1>2, <1>4, <2>3, <2>4, <2>6 DEF SessionsOfBrowsers
<1>8. CASE Logout(r)
  <2>1. /\ ask' = ask /\ jar' = jar
        /\ header'[r].sid = header[r].sid \/ (header'[r].sid.id = None /\ header'[r].sid.age = -1)
    BY <1>8, OfLogout
  <2> QED BY <1>2, <1>4, <2>1 DEF SessionsOfBrowsers
<1>9. CASE Handle(r) /\ ~KeepUser(r) /\ ~Logout(r)
  <2>1. header'[r].sid = header[r].sid /\ ask' = ask /\ jar' = jar
    BY <1>9, OfOtherHandle
  <2> QED BY <1>2, <1>4, <2>1 DEF SessionsOfBrowsers
<1>10. CASE Deliver(r)
  <2>1. /\ ask[r] # None /\ ask[r].browser \in Browser /\ ask' = ask /\ stage[r] \notin Over
        /\ \A b \in Browser : \/ jar'[b].sid = jar[b].sid
                              \/ jar'[b].sid = None
                              \/ /\ b = ask[r].browser /\ jar'[b].sid = header[r].sid
                                 /\ Lives(header[r].sid, now)
    BY <1>10, OfDeliver
  <2>2. header[r].sid # None /\ Lives(header[r].sid, now) => ~(header[r].sid.age < 0)
    <3>1. header[r].sid # None => header[r].sid \in CookieType /\ header[r].sid.at = now /\ now \in Int
      BY <2>1 DEF CookiesOfBrowsers, TypeOK, HeaderType
    <3> QED BY <3>1 DEF Lives, CookieType
  <2>3. \A b \in Browser : jar'[b].sid # None => jar'[b].sid.id \in Owned(b)'
    BY <1>2, <2>1, <2>2 DEF SessionsOfBrowsers
  <2> QED BY <1>2, <1>4, <1>10, <2>1, <2>3 DEF SessionsOfBrowsers
<1> QED BY <1>5, <1>6, <1>7, <1>8, <1>9, <1>10 DEF RequestStep

\* A logged out session stays out, but for a login that came with its cookie.
LEMMA LogoutStep ==
  ASSUME TypeOK, OwnContext, \A q \in Request : RequestInv(q), NEW r \in Request, RequestStep(r),
         RequestInv(r)', SessionsOfBrowsers, LogoutHolds,
         Deliver(r) => /\ header'[r].sid = header[r].sid
                       /\ stage[r] = "panicked" => answer'[r].status = 500
  PROVE  LogoutHolds'
<1>1. Others(r)
  BY OthersStay
<1>2. \A q \in Request : SaveTried(q) => SaveTried(q)' /\ ask'[q] = ask[q]
  BY SaveTriedStays
<1>3. ASSUME NEW id \in Id, store[id] # None, \E q \in Request : Leaves(q, id)
      PROVE  \E q \in Request : SaveTried(q)' /\ ask'[q].sid # None /\ ask'[q].sid.id = id
  BY <1>2, <1>3 DEF LogoutHolds
<1>4. \A q \in Request \ {r}, id \in Id : Leaves(q, id)' => Leaves(q, id)
  BY <1>1 DEF Others, Leaves
<1>5. ASSUME store' = store, \A id \in Id : Leaves(r, id)' => Leaves(r, id)
      PROVE  LogoutHolds'
  BY <1>3, <1>4, <1>5 DEF LogoutHolds
<1>6. CASE Ask(r)
  <2>1. store' = store /\ stage'[r] = "asked" /\ answer'[r] = None
    <3>1. store' = store /\ stage'[r] = "asked"
      BY <1>6 DEF Ask, TypeOK, sessionVars
    <3> QED BY <3>1 DEF RequestInv, InStep, Waiting
  <2> QED BY <1>5, <2>1 DEF Leaves
<1>7. CASE Serve(r)
  <2>1. stage'[r] # "returned"
    <3>1. ask[r] \in AskType
      BY <1>7, OfServe DEF TypeOK
    <3> QED BY <1>7, <3>1 DEF Serve, ServeHTTP, Dispatch, Refuse, FirstStep, AskType, Handlers, TypeOK
  <2> QED BY <1>5, <1>7, <2>1, OfServe DEF Leaves
<1>8. CASE KeepUser(r)
  <2>1. r \in Handled /\ ask[r] # None /\ ask[r].handler = "Authenticate" /\ ask[r].browser \in Browser
        /\ stage[r] = "keep"
    <3>1. r \in Handled /\ stage[r] = "keep"
      BY <1>8 DEF KeepUser, Handled, Waiting, Over
    <3> QED BY <3>1, OfHandled DEF StagesOf, AskType, Handlers
  <2> DEFINE id0 == IF ask[r].sid = None THEN r ELSE ask[r].sid.id
  <2>2. id0 \in Id
    BY <2>1 DEF SessionsOfBrowsers, Owned, Id
  <2>3. PICK i \in Id : i = id0
    BY <2>2
  <2>4. /\ ask' = ask /\ stage'[r] \in {"returned", "panicked"}
        /\ \A j \in Id : j # i => store'[j] = store[j]
    BY <1>8, <2>3, OfKeepUser
  <2>5. SaveTried(r)'
    BY <2>1, <2>4 DEF SaveTried, Waiting
  <2>6. \A id \in Id : ~Leaves(r, id)'
    BY <2>1, <2>4 DEF Leaves
  <2>7. ASSUME NEW id \in Id, store'[id] # None, NEW q \in Request, Leaves(q, id)'
        PROVE  \E p \in Request : SaveTried(p)' /\ ask'[p].sid # None /\ ask'[p].sid.id = id
    <3>1. q # r /\ Leaves(q, id)
      BY <1>4, <2>6, <2>7
    <3>2. CASE id # i
      BY <1>3, <2>4, <2>7, <3>1, <3>2
    <3>3. CASE id = i /\ ask[r].sid # None
      BY <2>3, <2>4, <2>5, <3>3
    <3>4. CASE id = i /\ ask[r].sid = None
      <4>1. ask[q] # None /\ ask[q].sid # None /\ ask[q].sid.id = r
        BY <2>3, <3>1, <3>4 DEF Leaves
      <4>2. ask[q].browser \in Browser
        BY <4>1 DEF TypeOK, AskType
      <4>3. r \in Owned(ask[q].browser)
        BY <4>1, <4>2 DEF SessionsOfBrowsers
      <4>4. SaveTried(r)
        BY <4>2, <4>3, IdsAssumption DEF Owned
      <4> QED BY <2>1, <4>4 DEF SaveTried
    <3> QED BY <3>2, <3>3, <3>4
  <2> QED BY <2>7 DEF LogoutHolds
<1>9. CASE Logout(r)
  <2>1. /\ stage[r] = "destroy" /\ ask' = ask
        /\ \A i \in Id : store'[i] = store[i] \/ store'[i] = None
        /\ \/ answer' = answer /\ stage'[r] = "panicked"
           \/ \A i \in Id : ask[r].sid # None /\ i = ask[r].sid.id => store'[i] = None
    BY <1>9, OfLogout
  <2>2. \A id \in Id : store'[id] # None => ~Leaves(r, id)' \/ Leaves(r, id)
    BY <2>1 DEF Leaves
  <2> QED BY <1>3, <1>4, <2>1, <2>2 DEF LogoutHolds
<1>10. CASE Handle(r) /\ ~KeepUser(r) /\ ~Logout(r)
  <2>1. store' = store /\ ask' = ask /\ stage[r] \notin {"keep", "destroy"} /\ r \in Handled
    BY <1>10, OfOtherHandle, HandleKeepsContext
  <2>2. CASE ask[r].handler = "Logout"
    <3>1. LoadSession(r)
      <4>1. stage[r] \in {"session", "returned", "panicked"}
        BY <2>1, <2>2, OfHandled DEF StagesOf
      <4> QED BY <1>10, <4>1 DEF Handle, Top, ShowForm, Create, CheckPassword, Fetch, Read, File
    <3>2. answer' = answer /\ stage'[r] # "returned"
      BY <2>2, <3>1 DEF LoadSession, GetSession, AfterSession, TypeOK
    <3> QED BY <1>5, <2>1, <3>2 DEF Leaves
  <2>3. CASE ask[r].handler # "Logout"
    BY <1>5, <2>1, <2>3 DEF Leaves
  <2> QED BY <2>2, <2>3
<1>11. CASE Deliver(r)
  <2>1. store' = store /\ ask' = ask /\ stage'[r] = "done" /\ (answer[r] # None => answer'[r] = answer[r])
        /\ stage[r] \notin Waiting \cup Over /\ ask[r] # None
    BY <1>11, OfDeliver
  <2>2. CASE ask[r].handler = "Logout"
    <3>1. stage[r] \in {"returned", "panicked", "refused"}
      <4>1. stage[r] \in {"returned", "unrouted", "slash", "panicked", "refused"}
        BY <1>11 DEF Deliver, Ends, Return, NoRoute, OtherSlash, Recover, Refused
      <4> QED BY <2>1, <2>2, <4>1 DEF RequestInv, OnRoute, StagesOf, Over, Waiting
    <3>2. stage[r] = "refused" => answer[r] # None
      BY DEF RequestInv, InStep
    <3> QED BY <1>5, <1>11, <2>1, <3>1, <3>2 DEF Leaves
  <2>3. CASE ask[r].handler # "Logout"
    BY <1>5, <2>1, <2>3 DEF Leaves
  <2> QED BY <2>2, <2>3
<1> QED BY <1>6, <1>7, <1>8, <1>9, <1>10, <1>11 DEF RequestStep


\* A panic is answered with 500.
LEMMA OfRecover ==
  ASSUME TypeOK, OwnContext, NEW r \in Request, RequestInv(r), Recover(r) PROVE answer'[r].status = 500
<1> DEFINE w == Noted(context[slot[r]], 500)
<1>1. r \in Handled /\ stage[r] = "panicked"
  BY DEF Recover, Handled, Waiting, Over
<1>2. ~context[slot[r]].written /\ context[slot[r]] \in ContextType
  BY <1>1, OfHandled DEF RequestInv, InStep
<1>3. w.status = 500 /\ ~w.written
  BY <1>2 DEF Noted, ContextType
<1>4. Flush(r, w, header[r], NoBody, answer)
  BY DEF Recover, Writer
<1> HIDE DEF w
<1> QED BY <1>3, <1>4 DEF Flush, Sent, TypeOK

\* A logout past its deletion stays past it.
LEMMA DestroyedStays ==
  ASSUME TypeOK, OwnContext, NEW r \in Request, RequestInv(r), RequestStep(r),
         NEW q \in Request, ask[q] # None, ask[q].handler = "Logout",
         stage[q] \notin {"new", "asked", "session", "destroy"}
  PROVE  ask'[q] = ask[q] /\ stage'[q] \notin {"new", "asked", "session", "destroy"}
<1>1. CASE q # r
  BY <1>1, OthersStay DEF Others
<1>2. CASE q = r
  <2>1. stage[r] \in Over \cup {"refused", "returned", "panicked"}
    BY <1>2 DEF RequestInv, OnRoute, StagesOf
  <2>2. Deliver(r)
    BY <2>1 DEF RequestStep, Ask, Serve, ServeHTTP, Handle, LoadSession, Top, ShowForm, Create, CheckPassword,
       KeepUser, Logout, Fetch, Read, File, Over
  <2>3. stage'[r] = "done" /\ ask' = ask
    BY <2>2 DEF Deliver, Ends, Return, NoRoute, OtherSlash, Recover, Refused, GiveBack, Finish, TypeOK
  <2> QED BY <1>2, <2>3
<1> QED BY <1>1, <1>2

\* A login saves a record that lives as long as every cookie not older than the setting,
\* a logout leaves its trace.
LEMMA RecordedStays ==
  ASSUME TypeOK, OwnContext, NEW r \in Request, RequestInv(r), RequestStep(r), SessionsOfBrowsers,
         NEW c \in CookieType, c.id \in Id, c.at <= now, c.age > 0, NeverShorter(c), Recorded(c)
  PROVE  Recorded(c)'
<1>1. ASSUME NEW q \in Request, ask[q] # None, ask[q].sid # None, ask[q].sid.id = c.id,
             ask[q].handler = "Logout", stage[q] \notin {"new", "asked", "session", "destroy"}
      PROVE  Recorded(c)'
  <2>1. ask'[q] = ask[q] /\ stage'[q] \notin {"new", "asked", "session", "destroy"}
    BY <1>1, DestroyedStays
  <2> QED BY <1>1, <2>1 DEF Recorded
<1>2. ASSUME store[c.id] # None, store[c.id].until >= c.at + c.age, ~KeepUser(r), ~Logout(r)
      PROVE  Recorded(c)'
  <2>1. store' = store
    <3>1. CASE Handle(r)
      BY <1>2, <3>1, OfOtherHandle
    <3>2. CASE Ask(r) \/ Serve(r) \/ Deliver(r)
      BY <3>2 DEF Ask, Serve, Deliver, sessionVars
    <3> QED BY <3>1, <3>2 DEF RequestStep
  <2> QED BY <1>2, <2>1 DEF Recorded
<1>3. ASSUME store[c.id] # None, store[c.id].until >= c.at + c.age, KeepUser(r)
      PROVE  Recorded(c)'
  <2> DEFINE id0 == IF ask[r].sid = None THEN r ELSE ask[r].sid.id
  <2>1. ask[r] # None /\ ask[r].browser \in Browser
    <3>1. r \in Handled
      BY <1>3 DEF KeepUser, Handled, Waiting, Over
    <3> QED BY <3>1, OfHandled DEF AskType
  <2>2. id0 \in Id
    BY <2>1 DEF SessionsOfBrowsers, Owned, Id
  <2>3. PICK id \in Id : id = id0
    BY <2>2
  <2>4. /\ \A i \in Id : i # id => store'[i] = store[i]
        /\ \/ store'[id] = store[id]
           \/ maxAge < 0 /\ store'[id] = None
           \/ maxAge >= 0 /\ store'[id] # None /\ store'[id].until = now + Ttl(maxAge)
    BY <1>3, <2>3, OfKeepUser
  <2>5. maxAge \in Int /\ now \in Int /\ c.at \in Int /\ c.age \in Int
    BY AgesTyped DEF CookieType
  <2>6. maxAge >= 0 /\ Ttl(maxAge) >= c.age /\ Ttl(maxAge) \in Int
    BY AgesTyped DEF NeverShorter
  <2>7. store'[c.id] # None /\ store'[c.id].until >= c.at + c.age
    BY <1>3, <2>4, <2>5, <2>6
  <2> QED BY <2>7 DEF Recorded
<1>4. ASSUME store[c.id] # None, store[c.id].until >= c.at + c.age, Logout(r)
      PROVE  Recorded(c)'
  <2>1. /\ stage'[r] \in {"returned", "panicked"} /\ ask' = ask
        /\ \/ store'[c.id] = store[c.id]
           \/ store'[c.id] = None /\ ask[r].sid # None /\ c.id = ask[r].sid.id
    BY <1>4, OfLogout
  <2>2. ask[r] # None /\ ask[r].handler = "Logout"
    <3>1. r \in Handled /\ stage[r] = "destroy"
      BY <1>4 DEF Logout, Handled, Waiting, Over
    <3> QED BY <3>1, OfHandled DEF StagesOf, AskType, Handlers
  <2> QED BY <1>4, <2>1, <2>2 DEF Recorded
<1> QED BY <1>1, <1>2, <1>3, <1>4 DEF Recorded

\* The cookies keep their records over a step of r.
LEMMA CookiesStep ==
  ASSUME TypeOK, OwnContext, \A q \in Request : RequestInv(q), NEW r \in Request, RequestStep(r),
         RequestInv(r)', SessionsOfBrowsers, CookiesOfBrowsers,
         Deliver(r) => header'[r].sid = header[r].sid
  PROVE  CookiesOfBrowsers'
<1>1. Others(r)
  BY OthersStay
<1>2. now' = now /\ maxAge' = maxAge /\ settings' = settings /\ now \in Int /\ maxAge \in Int
  BY <1>1, AgesTyped DEF Others
<1>a. \A c : NeverShorter(c)' <=> NeverShorter(c)
  BY <1>2 DEF NeverShorter, Ttl
<1>3. \A b \in Browser : jar[b].sid # None => jar[b].sid \in CookieType /\ jar[b].sid.id \in Id
  BY DEF SessionsOfBrowsers, Owned, Id, TypeOK
<1>4. ASSUME NEW q \in Request, stage[q] \notin Over, header[q].sid # None
      PROVE  header[q].sid \in CookieType /\ (header[q].sid.age > 0 => header[q].sid.id \in Id)
  <2>1. header[q].sid \in CookieType
    BY <1>4 DEF TypeOK, HeaderType
  <2>2. stage[q] = "returned"
    BY <1>4 DEF CookiesOfBrowsers
  <2>3. ask[q] # None /\ ask[q].browser \in Browser
    <3>1. ask[q] # None
      <4>1. OnRoute(q)
        BY DEF RequestInv
      <4> QED BY <2>2, <4>1 DEF OnRoute
    <3>2. ask[q] \in AskType
      BY <3>1 DEF TypeOK
    <3> QED BY <3>1, <3>2 DEF AskType
  <2>4. \/ header[q].sid.age < 0
        \/ header[q].sid.id \in Owned(ask[q].browser)
    BY <1>4, <2>3 DEF SessionsOfBrowsers
  <2> QED BY <2>1, <2>3, <2>4 DEF CookieType, Owned, Id
<1>5. ASSUME NEW q \in Request \ {r}, stage'[q] \notin Over, header'[q].sid # None
      PROVE  /\ stage'[q] = "returned" /\ header'[q].sid.at = now'
             /\ (header[q].sid.age > 0 /\ NeverShorter(header[q].sid) => Recorded(header[q].sid))'
  <2>1. stage[q] \notin Over /\ header[q].sid # None /\ stage'[q] = stage[q] /\ header'[q] = header[q]
    BY <1>1, <1>5 DEF Others
  <2>2. stage[q] = "returned" /\ header[q].sid.at = now
    BY <2>1 DEF CookiesOfBrowsers
  <2>3. PICK c \in CookieType : c = header[q].sid
    BY <1>4, <2>1
  <2>4. ASSUME c.age > 0, NeverShorter(c) PROVE Recorded(c)'
    <3>1. c.id \in Id /\ c.at <= now
      BY <1>2, <1>4, <2>1, <2>2, <2>3, <2>4 DEF CookieType
    <3>2. Recorded(c)
      BY <2>1, <2>3, <2>4 DEF CookiesOfBrowsers
    <3> QED BY <2>4, <3>1, <3>2, RecordedStays
  <2> QED BY <1>2, <1>a, <2>1, <2>2, <2>3, <2>4 DEF Recorded
<1>6. ASSUME NEW b \in Browser, jar'[b].sid # None,
             \/ jar'[b].sid = jar[b].sid
             \/ stage[r] \notin Over /\ jar'[b].sid = header[r].sid /\ Lives(header[r].sid, now)
      PROVE  /\ jar'[b].sid.at <= now' /\ Lives(jar'[b].sid, now')
             /\ (jar[b].sid.age > 0 /\ NeverShorter(jar[b].sid) => Recorded(jar[b].sid))'
  <2>1. jar'[b].sid \in CookieType
    BY <1>3, <1>4, <1>6
  <2>2. PICK c \in CookieType : c = jar'[b].sid
    BY <2>1
  <2>3. c.at <= now /\ Lives(c, now) /\ (c.age > 0 => c.id \in Id)
    BY <1>2, <1>3, <1>4, <1>6, <2>2 DEF CookiesOfBrowsers, CookieType
  <2>4. ASSUME c.age > 0, NeverShorter(c) PROVE Recorded(c)'
    <3>1. Recorded(c)
      BY <1>6, <2>2, <2>4 DEF CookiesOfBrowsers
    <3> QED BY <2>3, <2>4, <3>1, RecordedStays
  <2> QED BY <1>2, <1>a, <2>2, <2>3, <2>4 DEF Recorded, Lives
<1>7. \A b \in Browser : \/ jar'[b].sid = jar[b].sid
                         \/ jar'[b].sid = None
                         \/ stage[r] \notin Over /\ jar'[b].sid = header[r].sid /\ Lives(header[r].sid, now)
  <2>1. CASE Deliver(r)
    BY <2>1, OfDeliver
  <2>2. CASE Ask(r) \/ Serve(r)
    BY <2>2 DEF Ask, Serve, browserVars
  <2>3. CASE Handle(r)
    BY <2>3, HeaderTokenStays
  <2> QED BY <2>1, <2>2, <2>3 DEF RequestStep
<1>8. ASSUME stage'[r] \notin Over, header'[r].sid # None
      PROVE  /\ stage'[r] = "returned" /\ header'[r].sid.at = now'
             /\ (header[r].sid.age > 0 /\ NeverShorter(header[r].sid) => Recorded(header[r].sid))'
  <2>1. ~Deliver(r)
    BY <1>8, OfDeliver DEF Over
  <2>2. ~Ask(r)
    BY <1>8 DEF Ask, RequestInv, InStep, Waiting, EmptyHeader
  <2>3. ~Serve(r)
    BY <1>8, OfServe
  <2>4. Handle(r) /\ stage[r] # "returned" /\ r \in Handled
    <3>1. Handle(r)
      BY <2>1, <2>2, <2>3 DEF RequestStep
    <3> QED BY <3>1, HandleKeepsContext DEF Handle, LoadSession, Top, ShowForm, Create, CheckPassword,
               KeepUser, Logout, Fetch, Read, File
  <2>5. header[r].sid = None
    BY <2>4 DEF CookiesOfBrowsers, Handled
  <2>6. KeepUser(r) \/ Logout(r)
    BY <1>8, <2>4, <2>5, OfOtherHandle
  <2>7. CASE Logout(r)
    BY <1>2, <1>8, <2>5, <2>7, OfLogout
  <2>8. CASE KeepUser(r)
    <3> DEFINE id0 == IF ask[r].sid = None THEN r ELSE ask[r].sid.id
    <3>1. ask[r] # None /\ ask[r].browser \in Browser
      BY <2>4, OfHandled DEF AskType
    <3>2. id0 \in Id
      BY <3>1 DEF SessionsOfBrowsers, Owned, Id
    <3>3. PICK id \in Id : id = id0
      BY <3>2
    <3>4. /\ stage'[r] = "returned" /\ header'[r].sid.at = now /\ header'[r].sid.age = maxAge
          /\ maxAge >= 0 => /\ header'[r].sid.id = id
                            /\ store'[id] # None /\ store'[id].until = now + Ttl(maxAge)
      BY <1>8, <2>5, <2>8, <3>3, OfKeepUser
    <3>5. maxAge > 0 => Ttl(maxAge) = maxAge
      BY <1>2 DEF Ttl
    <3> QED BY <1>2, <3>4, <3>5 DEF Recorded
  <2> QED BY <2>6, <2>7, <2>8
<1> QED BY <1>5, <1>6, <1>7, <1>8 DEF CookiesOfBrowsers

-----------------------------------------------------------------------------
(* Time, restarts and the start. *)

BrowsersInv == TokensOfBrowsers /\ SessionsOfBrowsers /\ LogoutHolds /\ CookiesOfBrowsers

\* Browsers and Redis only forget, and Redis nothing a living cookie needs.
LEMMA TickBrowsers ==
  ASSUME TypeOK, \A q \in Request : RequestInv(q), BrowsersInv, Tick PROVE BrowsersInv'
<1> USE DEF BrowsersInv
<1>1. /\ stage' = stage /\ ask' = ask /\ header' = header /\ answer' = answer /\ page' = page
      /\ maxAge' = maxAge /\ settings' = settings /\ now' = now + 1
      /\ \A r \in Request : stage[r] \in {"new"} \cup Over
  BY DEF Tick, httpVars
<1>2. now \in Int
  BY DEF TypeOK
<1>a. \A c : NeverShorter(c)' <=> NeverShorter(c)
  BY <1>1 DEF NeverShorter, Ttl
<1>3. ASSUME NEW b \in Browser
      PROVE  /\ jar'[b].csrf = jar[b].csrf
             /\ jar'[b].sid = None \/ (jar'[b].sid = jar[b].sid /\ Lives(jar[b].sid, now + 1))
  BY DEF Tick, TypeOK
<1>4. \A i \in Id : store'[i] = IF store[i] # None /\ store[i].until <= now + 1 THEN None ELSE store[i]
  BY DEF Tick, Passed
<1>5. TokensOfBrowsers'
  BY <1>1, <1>3, TokensStay
<1>6. \A b : Owned(b)' = Owned(b)
  BY <1>1 DEF Owned, SaveTried
<1>7. SessionsOfBrowsers'
  BY <1>1, <1>3, <1>6 DEF SessionsOfBrowsers
<1>8. LogoutHolds'
  <2>1. \A r \in Request : SaveTried(r)' = SaveTried(r)
    BY <1>1 DEF SaveTried
  <2>2. \A r \in Request, id \in Id : Leaves(r, id)' = Leaves(r, id)
    BY <1>1 DEF Leaves
  <2> QED BY <1>1, <1>4, <2>1, <2>2 DEF LogoutHolds
<1>9. \A r \in Request : stage[r] \notin Over => header[r].sid = None
  BY <1>1 DEF RequestInv, InStep, Waiting, EmptyHeader
<1>10. ASSUME NEW b \in Browser, jar'[b].sid # None
       PROVE  /\ jar'[b].sid.at <= now' /\ Lives(jar'[b].sid, now')
              /\ (jar[b].sid.age > 0 /\ NeverShorter(jar[b].sid) => Recorded(jar[b].sid))'
  <2>1. jar'[b].sid = jar[b].sid /\ Lives(jar[b].sid, now + 1) /\ jar[b].sid.at <= now
    BY <1>3, <1>10 DEF CookiesOfBrowsers
  <2>2. jar[b].sid \in CookieType /\ jar[b].sid.id \in Id
    BY <1>10, <2>1 DEF TypeOK, SessionsOfBrowsers, Owned, Id
  <2>3. PICK c \in CookieType : c = jar[b].sid
    BY <2>2
  <2>4. ASSUME c.age > 0, NeverShorter(c) PROVE Recorded(c)'
    <3>1. Recorded(c)
      BY <1>10, <2>1, <2>3, <2>4 DEF CookiesOfBrowsers
    <3>2. now + 1 < c.at + c.age
      BY <2>1, <2>3, <2>4 DEF Lives, CookieType
    <3>3. CASE store[c.id] # None /\ store[c.id].until >= c.at + c.age
      <4>1. store[c.id].until \in Int /\ c.at \in Int /\ c.age \in Int
        BY <2>2, <2>3, <3>3 DEF TypeOK, RecordType, CookieType
      <4>2. ~(store[c.id].until <= now + 1)
        BY <1>2, <3>2, <3>3, <4>1
      <4>3. store'[c.id] = store[c.id]
        BY <1>4, <2>2, <2>3, <4>2
      <4> QED BY <3>3, <4>3 DEF Recorded
    <3>4. CASE ~(store[c.id] # None /\ store[c.id].until >= c.at + c.age)
      BY <1>1, <3>1, <3>4 DEF Recorded
    <3> QED BY <3>3, <3>4
  <2>5. c.at <= now + 1
    BY <1>2, <2>1, <2>3 DEF CookieType
  <2>6. (jar[b].sid.age > 0 /\ NeverShorter(jar[b].sid) => Recorded(jar[b].sid))'
    BY <1>1, <1>a, <2>1, <2>3, <2>4 DEF Recorded
  <2> QED BY <1>1, <2>1, <2>3, <2>5, <2>6 DEF Lives
<1>11. CookiesOfBrowsers'
  BY <1>1, <1>9, <1>10 DEF CookiesOfBrowsers
<1> QED BY <1>5, <1>7, <1>8, <1>11

\* What the process forgets is no browser's.
LEMMA RestartBrowsers ==
  ASSUME TypeOK, \A q \in Request : RequestInv(q), BrowsersInv, Restart PROVE BrowsersInv'
<1> USE DEF BrowsersInv
<1>1. /\ ask' = ask /\ header' = header /\ answer' = answer /\ page' = page /\ jar' = jar
      /\ now' = now /\ store' = store
      /\ \A r \in Request : stage'[r] = IF stage[r] \in {"new", "done"} THEN stage[r] ELSE "lost"
  BY DEF Restart, HttpCrash, SessionCrash, browserVars
<1>2. \A c : NeverShorter(c)' => NeverShorter(c)
  BY DEF Restart, SessionCrash, NeverShorter, Ttl
<1>3. TokensOfBrowsers'
  BY <1>1, TokensStay
<1>4. \A r \in Request : SaveTried(r) => SaveTried(r)'
  BY <1>1 DEF SaveTried, Waiting
<1>5. \A b : Owned(b) \subseteq Owned(b)'
  BY <1>1, <1>4 DEF Owned
<1>6. SessionsOfBrowsers'
  BY <1>1, <1>5 DEF SessionsOfBrowsers
<1>7. LogoutHolds'
  <2>1. \A r \in Request, id \in Id : Leaves(r, id)' => Leaves(r, id)
    BY <1>1 DEF Leaves
  <2> QED BY <1>1, <1>4, <2>1 DEF LogoutHolds
<1>8. CookiesOfBrowsers'
  <2>1. \A r \in Request : stage'[r] \notin Over => header'[r].sid = None
    BY <1>1 DEF RequestInv, InStep, Waiting, EmptyHeader, Over
  <2>2. \A c : Recorded(c) => Recorded(c)'
    BY <1>1 DEF Recorded
  <2> QED BY <1>1, <1>2, <2>1, <2>2 DEF CookiesOfBrowsers, Lives
<1> QED BY <1>3, <1>6, <1>7, <1>8

\* The browsers that were here before.
LEMMA InitBrowsers == ASSUME Init, TypeOK PROVE BrowsersInv
<1>1. PICK known \in SUBSET Browser, rows \in SUBSET Browser, e \in Email, p \in Password,
           cookie \in [id : {None}, at : {0, 1}, age : {maxAge}] :
        /\ rows \subseteq known /\ Cardinality(rows) = (IF known = {} THEN 0 ELSE 1)
        /\ known # {} => maxAge >= 0 /\ Lives(cookie, now)
        /\ jar = [b \in Browser |->
                    IF b \in known THEN [csrf |-> b, sid |-> [cookie EXCEPT !.id = b]]
                                   ELSE [csrf |-> None, sid |-> None]]
        /\ page = [b \in Browser |-> IF b \in known THEN b ELSE None]
        /\ users = [i \in Id |-> IF i \in rows THEN [email |-> e, password |-> p] ELSE None]
        /\ store = [i \in Id |->
                      IF i \in known /\ cookie.at + Ttl(maxAge) > now
                      THEN [values |-> {<<"userId", x>> : x \in rows}, until |-> cookie.at + Ttl(maxAge)]
                      ELSE None]
  BY Zenon DEF Init
<1>2. /\ \A r \in Request : stage[r] = "new" /\ ask[r] = None /\ header[r] = EmptyHeader /\ answer[r] = None
      /\ now = 1 /\ maxAge \in Int /\ maxAge \in MaxAges
  BY AgesAssumption DEF Init, HttpInit
<1>3. \A r \in Request : header[r].sid = None /\ header[r].csrf = None
  BY <1>2 DEF EmptyHeader
<1>4. ASSUME NEW b \in Browser
      PROVE  IF b \in known
             THEN /\ jar[b].csrf = b /\ page[b] = b
                  /\ jar[b].sid.id = b /\ jar[b].sid.at = cookie.at /\ jar[b].sid.age = maxAge
             ELSE jar[b].csrf = None /\ jar[b].sid = None /\ page[b] = None
  BY <1>1
<1>5. \A b \in Browser : b # None /\ b \in Id
  BY NoneAssumption DEF Id
<1>6. TokensOfBrowsers
  BY <1>2, <1>4, <1>5 DEF TokensOfBrowsers, Mine
<1>7. SessionsOfBrowsers
  BY <1>2, <1>4 DEF SessionsOfBrowsers, Owned
<1>8. LogoutHolds
  BY <1>2 DEF LogoutHolds, Leaves
<1>9. ASSUME NEW b \in Browser, jar[b].sid # None
      PROVE  /\ jar[b].sid.at <= now /\ Lives(jar[b].sid, now)
             /\ jar[b].sid.age > 0 /\ NeverShorter(jar[b].sid) => Recorded(jar[b].sid)
  <2>1. b \in known /\ jar[b].sid.id = b /\ jar[b].sid.at = cookie.at /\ jar[b].sid.age = maxAge
    BY <1>4, <1>9
  <2>2. cookie.at \in {0, 1} /\ cookie.age = maxAge
    OBVIOUS
  <2>3. jar[b].sid.at <= now /\ Lives(jar[b].sid, now)
    BY <1>1, <1>2, <2>1, <2>2 DEF Lives
  <2>4. ASSUME maxAge > 0 PROVE store[b] # None /\ store[b].until >= cookie.at + maxAge
    <3>1. Ttl(maxAge) = maxAge
      BY <1>2, <2>4 DEF Ttl
    <3>2. cookie.at + Ttl(maxAge) > now
      BY <1>1, <1>2, <2>1, <2>2, <2>4, <3>1 DEF Lives
    <3>3. store[b] = [values |-> {<<"userId", x>> : x \in rows}, until |-> cookie.at + Ttl(maxAge)]
      BY <1>1, <1>5, <2>1, <3>2
    <3>4. store[b].until = cookie.at + maxAge
      BY <3>1, <3>3
    <3>5. store[b] # None
      <4>1. store[b] \in RecordType
        <5>1. rows \subseteq Id
          BY DEF Id
        <5>2. {<<"userId", x>> : x \in rows} \subseteq {KeyWritten} \X (Id \cup {NoUser, None})
          BY <5>1 DEF KeyWritten
        <5>3. cookie.at + Ttl(maxAge) \in Int
          BY <1>2, <2>2, <3>1
        <5> QED BY <3>3, <5>2, <5>3 DEF RecordType
      <4> QED BY <4>1, AbsenceAssumption
    <3> QED BY <1>2, <2>2, <3>4, <3>5
  <2> QED BY <2>1, <2>3, <2>4 DEF Recorded
<1>10. CookiesOfBrowsers
  BY <1>2, <1>3, <1>9 DEF CookiesOfBrowsers
<1> QED BY <1>6, <1>7, <1>8, <1>10 DEF BrowsersInv

-----------------------------------------------------------------------------
(* The invariant. *)

\* ServerInv holds at the start and every step of a request, of the clock and of a
\* restart keeps it.
LEMMA Invariance == Spec => []ServerInv
<1>1. Init => ServerInv
  BY TypeInit, InitRequests, InitBrowsers DEF ServerInv, BrowsersInv
<1>2. ASSUME ServerInv, [Next]_vars PROVE ServerInv'
  <2> USE DEF ServerInv
  <2>1. ASSUME NEW r \in Request, RequestStep(r) PROVE ServerInv'
    <3>1. RequestInv(r)
      BY <1>2
    <3>2. ask[r] # None /\ ask[r].sid # None => ask[r].sid.id \in Id
      <4>1. ask[r] # None => ask[r].browser \in Browser
        BY <1>2 DEF TypeOK, AskType
      <4> QED BY <1>2, <4>1 DEF SessionsOfBrowsers, Owned, Id
    <3>3. /\ RequestInv(r)'
          /\ Deliver(r) => header'[r].csrf = header[r].csrf /\ header'[r].sid = header[r].sid
      BY <1>2, <2>1, <3>1, <3>2, RequestKeeps
    <3>4. TypeOK'
      BY <1>2, <2>1, <3>1, <3>2, TypeStep
    <3>5. OwnContext' /\ slot'[r] \in {slot[r], None} \cup Unheld
      BY <1>2, <2>1, <3>1, <3>4, ContextStep
    <3>6. Others(r)
      BY <1>2, <2>1, OthersStay
    <3>7. \A q \in Request : RequestInv(q)'
      BY <1>2, <3>3, <3>5, <3>6, OtherRequests
    <3>8. Deliver(r) /\ stage[r] = "panicked" => answer'[r].status = 500
      <4>1. Deliver(r) /\ stage[r] = "panicked" => Recover(r)
        BY DEF Deliver, Ends, Return, NoRoute, OtherSlash, Refused
      <4> QED BY <1>2, <3>1, <4>1, OfRecover
    <3>9. TokensOfBrowsers'
      BY <1>2, <2>1, <3>3, <3>4, TokensStep
    <3>10. SessionsOfBrowsers'
      BY <1>2, <2>1, <3>3, SessionsStep
    <3>11. LogoutHolds'
      BY <1>2, <2>1, <3>3, <3>8, LogoutStep
    <3>12. CookiesOfBrowsers'
      BY <1>2, <2>1, <3>3, CookiesStep
    <3> QED BY <3>4, <3>5, <3>7, <3>9, <3>10, <3>11, <3>12
  <2>2. CASE Tick
    BY <1>2, <2>2, TypeTick, TickKeeps, TickBrowsers DEF BrowsersInv
  <2>3. CASE Restart
    BY <1>2, <2>3, TypeRestart, RestartKeeps, RestartBrowsers DEF BrowsersInv
  <2>4. CASE UNCHANGED vars
    <3> USE <1>2, <2>4 DEF vars, httpVars, sessionVars, browserVars, dataVars
    <3>1. TypeOK' /\ OwnContext'
      BY DEF TypeOK, OwnContext, Handled
    <3>2. \A r \in Request : RequestInv(r)'
      BY DEF RequestInv, OnRoute, InStep, FrameOf, LoginOf, Holds, TopOf, TokenSent, TokenOf, SessionOf,
             Handled
    <3>3. TokensOfBrowsers'
      BY TokensStay
    <3>4. \A b : Owned(b)' = Owned(b)
      BY DEF Owned, SaveTried
    <3>5. SessionsOfBrowsers'
      BY <3>4 DEF SessionsOfBrowsers
    <3>6. LogoutHolds' /\ CookiesOfBrowsers'
      BY DEF LogoutHolds, Leaves, SaveTried, CookiesOfBrowsers, Recorded, Lives,
             NeverShorter, Ttl
    <3> QED BY <3>1, <3>2, <3>3, <3>5, <3>6
  <2> QED BY <1>2, <2>1, <2>2, <2>3, <2>4 DEF Next, RequestStep
<1> QED BY <1>1, <1>2, PTL DEF Spec

-----------------------------------------------------------------------------
(* The properties. *)

\* The fields keep the values the code gives them.
THEOREM Typed == Spec => []TypeOK
BY Invariance, PTL DEF ServerInv

\* A context serves one request at a time and shows it nothing of the others.
THEOREM ContextsApart == Spec => []OwnContext
BY Invariance, PTL DEF ServerInv

\* X-Frame-Options goes out with no page.
THEOREM Framed == Spec => []FrameOnlyWithoutBody
<1>1. ServerInv => FrameOnlyWithoutBody
  BY DEF ServerInv, RequestInv, FrameOf, FrameOnlyWithoutBody
<1> QED BY <1>1, Invariance, PTL

\* A request that is over leaves no token, no open body but of a failed read, and its
\* session.
THEOREM LeftBehind == Spec => []WhatStaysBehind
<1>1. ASSUME ServerInv, NEW r \in Request
      PROVE  /\ tokens[r] # None <=> stage[r] \notin Waiting \cup Over
             /\ r \in bodies => stage[r] \in {"read", "returned"} \/ answer[r].status = 500
             /\ stage[r] = "done" /\ answer[r].body.kind = "top" /\ restarts = 0 => registry[r] # None
  <2>1. Holds(r) /\ InStep(r) /\ TopOf(r)
    BY <1>1 DEF ServerInv, RequestInv
  <2> QED BY <2>1 DEF Holds, InStep, TopOf
<1>2. ServerInv => WhatStaysBehind
  BY <1>1 DEF WhatStaysBehind
<1> QED BY <1>2, Invariance, PTL

\* Every served request has an answer, and a login answered like a success its cookie.
THEOREM ServedAnswered == Spec => []Answered
<1>1. ASSUME ServerInv, NEW r \in Request, stage[r] = "done"
      PROVE  /\ answer[r] # None
             /\ ask[r].handler = "Authenticate" /\ answer[r].status = 301 =>
                  answer[r].header.to = "/" /\ answer[r].header.sid # None
  <2>1. InStep(r) /\ LoginOf(r) /\ OnRoute(r)
    BY <1>1 DEF ServerInv, RequestInv
  <2> QED BY <1>1, <2>1 DEF InStep, LoginOf, OnRoute
<1>2. ServerInv => Answered
  BY <1>1 DEF Answered
<1> QED BY <1>2, Invariance, PTL

\* A browser was given all the tokens it has, so two that differ are two it was given.
THEOREM PagesPass == Spec => []PageMatchesCookie
<1>1. ASSUME ServerInv, NEW b \in Browser, page[b] # None, jar[b].csrf # page[b]
      PROVE  Cardinality(Issued(b)) > 1
  <2>1. jar[b].csrf \in Issued(b) /\ page[b] \in Issued(b)
    BY <1>1 DEF ServerInv, TokensOfBrowsers, Mine
  <2>2. PICK x \in Issued(b), y \in Issued(b) : x # y
    BY <1>1, <2>1
  <2>3. IsFiniteSet(Issued(b))
    BY IdsAssumption, FS_Subset DEF Issued
  <2>4. IsFiniteSet({y}) /\ Cardinality({y}) = 1
    BY FS_Singleton
  <2>5. Cardinality({y} \cup {x}) = 2
    BY <2>2, <2>4, FS_AddElement
  <2>6. Cardinality({y} \cup {x}) <= Cardinality(Issued(b))
    BY <2>2, <2>3, FS_Subset
  <2>7. Cardinality(Issued(b)) \in Nat
    BY <2>3, FS_CardinalityType
  <2> QED BY <2>5, <2>6, <2>7
<1>2. ASSUME ServerInv, NEW b \in Browser, page[b] # None PROVE jar[b].csrf # None
  BY <1>2 DEF ServerInv, TokensOfBrowsers
<1>3. ServerInv => PageMatchesCookie
  BY <1>1, <1>2 DEF PageMatchesCookie, verifyToken
<1> QED BY <1>3, Invariance, PTL

\* A record lives as long as the cookies of its session, whenever the process dies and
\* however it is set after that, but for a logout and a setting shorter than the cookie.
THEOREM CookiesWork == Spec => []CookieFindsRecord
<1>1. ASSUME ServerInv, NEW b \in Browser, NEW c, c = jar[b].sid,
             c # None, c.age > 0, NeverShorter(c)
      PROVE  Decodes(c) /\ (store[c.id] # None \/ \E r \in Request : DeletedBy(r, c.id))
  <2>1. c.at <= now /\ Lives(c, now) /\ Recorded(c)
    BY <1>1 DEF ServerInv, CookiesOfBrowsers
  <2>2. c.at \in Int /\ c.age \in Int /\ now \in Int
    BY <1>1 DEF ServerInv, TypeOK, CookieType
  <2>3. Decodes(c)
    <3>1. maxAge \in Int /\ Ttl(maxAge) >= c.age
      BY <1>1, AgesAssumption DEF ServerInv, TypeOK, NeverShorter
    <3> QED BY <1>1, <2>1, <2>2, <3>1 DEF Decodes, Lives, Ttl
  <2>4. store[c.id] # None \/ \E r \in Request : DeletedBy(r, c.id)
    BY <2>1 DEF Recorded, DeletedBy
  <2> QED BY <2>3, <2>4
<1>2. ServerInv => CookieFindsRecord
  BY <1>1 DEF CookieFindsRecord
<1> QED BY <1>2, Invariance, PTL

\* A session id belongs to one browser: its own, or that of the request it was made for.
THEOREM SessionsOwned == Spec => []SessionsApart
<1>1. ASSUME ServerInv, NEW a \in Browser, NEW b \in Browser, NEW id, id \in Owned(a), id \in Owned(b)
      PROVE  a = b
  BY <1>1, IdsAssumption DEF Owned
<1>2. ServerInv => SessionsApart
  BY <1>1 DEF ServerInv, SessionsOfBrowsers, SessionsApart
<1> QED BY <1>2, Invariance, PTL

\* Logging out ends a session, but for a login under way with its cookie.
THEOREM LogoutEnds == Spec => []LogoutEndsSession
<1>1. ASSUME ServerInv, NEW id \in Id, LoggedOut(id), store[id] # None
      PROVE  \E r \in Request : SaveTried(r) /\ ask[r].sid # None /\ ask[r].sid.id = id
  <2>1. \E r \in Request : Leaves(r, id)
    BY <1>1 DEF LoggedOut, Leaves
  <2> QED BY <1>1, <2>1 DEF ServerInv, LogoutHolds
<1>2. ServerInv => LogoutEndsSession
  BY <1>1 DEF LogoutEndsSession, SaveTried
<1> QED BY <1>2, Invariance, PTL

\* The top page knows no user: no session has the key it is read under.
THEOREM NobodySignedIn == Spec => []NeverSignedIn
<1>1. ServerInv => NeverSignedIn
  BY DEF ServerInv, RequestInv, TopOf, NeverSignedIn
<1> QED BY <1>1, Invariance, PTL
====
