------------------------------- MODULE Server -------------------------------
(***************************************************************************)
(* The server process of main.go with its handlers, the browsers that ask  *)
(* it, the users table and the hosts the proxy reads from.                 *)
(***************************************************************************)
EXTENDS Sessions

CONSTANTS
  Routes,      \* the <<method, handler>> pairs that have a route
  Email, Password,
  MaxRestarts  \* bound: deaths of the process

(* main.go routes Top, Proxy and File.  The other handlers are those of       *)
(* controller/users.go at the addresses templates/user_form.tpl links to.       *)
Handlers == {"Top", "Proxy", "File", "Login", "Register", "Create", "Authenticate", "Logout"}
MainRoutes == {<<"GET", "Top">>, <<"GET", "Proxy">>, <<"GET", "File">>}

ASSUME RoutesAssumption ==
  /\ MainRoutes \subseteq Routes /\ Routes \subseteq {"GET", "POST"} \X Handlers
  /\ <<"GET", "Authenticate">> \notin Routes   \* the forms are posted
ASSUME RestartsAssumption == MaxRestarts \in Nat

VARIABLES
  jar,       \* the cookies of each browser
  page,      \* the token in the form each browser shows
  users,     \* the users table: the row of each id
  found,     \* the id Authenticate has in hand
  bodies,    \* requests whose upstream response body is open
  restarts

browserVars == <<jar, page>>
dataVars == <<users, found, bodies>>
vars == <<httpVars, sessionVars, browserVars, dataVars, restarts>>

NoUser == "0"   \* gorm's zero ID

-----------------------------------------------------------------------------

\* The process has just started.  Some browsers were here before: they have the CSRF
\* cookie, a form and a session cookie that lives, with a record if it is not too old; one
\* of them has registered.
Init ==
  /\ HttpInit
  /\ maxAge \in MaxAges
  /\ settings = {maxAge}
  /\ now = 1
  /\ registry = [r \in Request |-> None]
  /\ \E known \in SUBSET Browser, rows \in SUBSET Browser, e \in Email, p \in Password,
       cookie \in [id : {None}, at : {0, 1}, age : {maxAge}] :
       /\ rows \subseteq known /\ Cardinality(rows) = (IF known = {} THEN 0 ELSE 1)
       /\ known # {} => maxAge >= 0 /\ Lives(cookie, now)
       /\ jar = [b \in Browser |->
                   IF b \in known THEN [csrf |-> b, sid |-> [cookie EXCEPT !.id = b]]
                                  ELSE [csrf |-> None, sid |-> None]]
       /\ page = [b \in Browser |-> IF b \in known THEN b ELSE None]
       /\ users = [i \in Id |-> IF i \in rows THEN [email |-> e, password |-> p] ELSE None]
       /\ store = [i \in Id |->
                     IF i \in known /\ cookie.at + Ttl(maxAge) > now
                     THEN [values |-> {<<"userId", x>> : x \in rows}, until |-> cookie.at + Ttl(maxAge)]
                     ELSE None]
  /\ found = [r \in Request |-> None]
  /\ bodies = {}
  /\ restarts = 0

\* A browser sends a request with its cookies, for a POST with a form it filled in.
Ask(r) ==
  /\ stage[r] = "new"
  /\ \E b \in Browser, route \in Routes \cup {<<"GET", "NoRoute">>, <<"GET", "OtherSlash">>},
       e \in Email \cup {None}, p \in Password \cup {None} :
       /\ (e # None) = (route[2] \in {"Create", "Authenticate"})
       /\ (p # None) = (route[2] \in {"Create", "Authenticate"})
       /\ ask' = [ask EXCEPT ![r] =
                    [browser |-> b, method |-> route[1], handler |-> route[2],
                     csrf |-> jar[b].csrf, sid |-> jar[b].sid, form |-> page[b],
                     email |-> e, password |-> p]]
  /\ Moved(r, "asked")
  /\ UNCHANGED <<tokens, ginPool, slot, context, header, answer,
                 sessionVars, browserVars, dataVars, restarts>>

FirstStep(handler) ==
  CASE handler \in {"Top", "Logout"}      -> "session"
    [] handler \in {"Login", "Register"}  -> "form"
    [] handler = "NoRoute"                -> "unrouted"
    [] handler = "OtherSlash"             -> "slash"
    [] OTHER                              -> handler

Serve(r) ==
  /\ ServeHTTP(r, FirstStep(ask[r].handler))
  /\ UNCHANGED <<sessionVars, browserVars, dataVars, restarts>>

\* A handler's last step when it returns with a body.
Answers(r, code, body) ==
  /\ Write(r, header[r], code, body)
  /\ Moved(r, "returned")
  /\ UNCHANGED <<ask, tokens, ginPool, slot, header>>

-----------------------------------------------------------------------------
(* users.go, session.go *)

\* The session is loaded first in Top and Logout, and after the password check in
\* Authenticate.
AfterSession(handler) ==
  CASE handler = "Top"          -> "show"
    [] handler = "Authenticate" -> "keep"
    [] handler = "Logout"       -> "destroy"

LoadSession(r) ==
  /\ stage[r] = "session"
  /\ GetSession(r, AfterSession(ask[r].handler))
  /\ UNCHANGED <<ask, tokens, ginPool, slot, context, header, answer,
                 browserVars, dataVars, restarts>>

KeyRead == "user_id"

\* Fault: the key that is read is written.
KeyWrittenRead == "user_id"

KeyWritten == "userId"

\* GetCurrentUser reads the row of the id the session has, which may fail.
Shown(r) ==
  LET id == ValueOf(registry[r].values, KeyRead)
  IN  {NoUser} \cup {i \in Id : i = id /\ users[i] # None}

Top(r) ==
  /\ stage[r] = "show"
  /\ \E who \in Shown(r) : Answers(r, 200, TopPage(who))
  /\ UNCHANGED <<sessionVars, browserVars, dataVars, restarts>>

\* Login and Register: the form has the token of the request.
ShowForm(r) ==
  /\ stage[r] = "form"
  /\ Answers(r, 200, Form(tokens[r]))
  /\ UNCHANGED <<sessionVars, browserVars, dataVars, restarts>>

\* db.Create: the row is there unless its email is (unique_index) or the database
\* fails.
Insert(r) ==
  {users} \cup
  {[users EXCEPT ![r] = [email |-> ask[r].email, password |-> ask[r].password]] :
     x \in {i \in {r} : \A j \in Id : users[j] # None => users[j].email # ask[r].email}}

\* The error is ignored.
Create(r) ==
  /\ stage[r] = "Create"
  /\ users' \in Insert(r)
  /\ Redirect(r, [header[r] EXCEPT !.to = "/login"])
  /\ Moved(r, "returned")
  /\ UNCHANGED <<ask, tokens, ginPool, slot, sessionVars, browserVars, found, bodies, restarts>>

\* User.Auth: the row of the email, if there is one and the database answers; whether
\* the password is its own.
Auth(r) ==
  {<<NoUser, FALSE>>} \cup
  {<<i, users[i].password = ask[r].password>> :
     i \in {i \in Id : users[i] # None /\ users[i].email = ask[r].email}}

\* The redirect for a right password does not end the handler, and being one of a POST
\* leaves the header open.
CheckPassword(r) ==
  /\ stage[r] = "Authenticate"
  /\ \E result \in Auth(r) :
       /\ found' = [found EXCEPT ![r] = result[1]]
       /\ \/ /\ result[2]
             /\ Redirect(r, [header[r] EXCEPT !.to = "/login"])
          \/ /\ ~result[2]
             /\ UNCHANGED <<context, header, answer>>
  /\ Moved(r, "session")
  /\ UNCHANGED <<ask, tokens, ginPool, slot, sessionVars, browserVars, users, bodies, restarts>>

Redirects(r, s) ==
  /\ Redirect(r, [SetCookie(r, s) EXCEPT !.to = "/"])
  /\ Moved(r, "returned")
  /\ UNCHANGED <<ginPool, slot>>

KeepUser(r) ==
  /\ stage[r] = "keep"
  /\ LET s == [registry[r] EXCEPT !.values = SetValue(@, KeyWritten, found[r])]
     IN  Save(r, s, Redirects(r, s))
  /\ UNCHANGED <<ask, tokens, browserVars, dataVars, restarts>>

\* session.Destroy
Logout(r) ==
  /\ stage[r] = "destroy"
  /\ LET s == [registry[r] EXCEPT !.age = -1]
     IN  Save(r, s, Redirects(r, s))
  /\ UNCHANGED <<ask, tokens, browserVars, dataVars, restarts>>

-----------------------------------------------------------------------------
(* main.go *)

\* The /proxy handler: the form does not parse, or http.Get fails with the last response
\* of too many redirects (302 for any 3xx); it fails and there is no response to take the
\* status of; or it has a response.
Fetch(r) ==
  /\ stage[r] = "Proxy"
  /\ \/ /\ \E code \in {400, 302} : AbortWithError(r, code)
        /\ Moved(r, "returned")
        /\ UNCHANGED bodies
     \/ /\ Moved(r, "panicked")
        /\ UNCHANGED <<context, header, answer, bodies>>
     \/ /\ bodies' = bodies \cup {r}
        /\ Moved(r, "read")
        /\ UNCHANGED <<context, header, answer>>
  /\ UNCHANGED <<ask, tokens, ginPool, slot, sessionVars, browserVars, users, found, restarts>>

\* Fault: the body is left to the garbage collector.
ReadUnclosed(r) ==
  /\ stage[r] = "read"
  /\ Answers(r, 200, Text)
  /\ UNCHANGED <<sessionVars, browserVars, dataVars, restarts>>

\* ioutil.ReadAll fails, or the copy is sent and the body is closed.
Read(r) ==
  /\ stage[r] = "read"
  /\ \/ /\ AbortWithError(r, 500)
        /\ Moved(r, "returned")
        /\ UNCHANGED <<ask, tokens, ginPool, slot, bodies>>
     \/ /\ Answers(r, 200, Text)
        /\ bodies' = bodies \ {r}
  /\ UNCHANGED <<sessionVars, browserVars, users, found, restarts>>

\* createStaticHandler: a file, none, or one the browser has.
File(r) ==
  /\ stage[r] = "File"
  /\ \/ \E code \in {200, 404} : Answers(r, code, Text)
     \/ /\ context' = [context EXCEPT ![slot[r]] = Noted(@, 304)]
        /\ Moved(r, "returned")
        /\ UNCHANGED <<ask, tokens, ginPool, slot, header, answer>>
  /\ UNCHANGED <<sessionVars, browserVars, dataVars, restarts>>

Handle(r) ==
  \/ LoadSession(r) \/ Top(r) \/ ShowForm(r) \/ Create(r) \/ CheckPassword(r)
  \/ KeepUser(r) \/ Logout(r) \/ Fetch(r) \/ Read(r) \/ File(r)

-----------------------------------------------------------------------------

\* The cookies of a browser after an answer that sets some.
Received(cookies, h) ==
  [csrf |-> IF h.csrf = None THEN cookies.csrf ELSE h.csrf,
   sid  |-> IF h.sid = None THEN cookies.sid ELSE IF Lives(h.sid, now) THEN h.sid ELSE None]

\* The request is over and its answer reaches the browser, or is lost.
Deliver(r) ==
  /\ Ends(r)
  /\ \/ LET b == ask[r].browser
        IN  /\ answer'[r] # None
            /\ jar' = [jar EXCEPT ![b] = Received(@, answer'[r].header)]
            /\ page' = [page EXCEPT ![b] =
                          IF answer'[r].body.kind = "form" THEN answer'[r].body.value ELSE @]
     \/ UNCHANGED browserVars
  /\ UNCHANGED <<sessionVars, dataVars, restarts>>

\* Time passes: browsers drop cookies and Redis drops records.  Bound: the unit is long
\* against a request, so none is under way.
Tick ==
  /\ now < MaxNow
  /\ \A r \in Request : stage[r] \in {"new"} \cup Over
  /\ now' = now + 1
  /\ store' = Passed(now + 1)
  /\ jar' = [b \in Browser |->
               IF jar[b].sid # None /\ ~Lives(jar[b].sid, now + 1)
               THEN [jar[b] EXCEPT !.sid = None] ELSE jar[b]]
  /\ UNCHANGED <<httpVars, maxAge, settings, registry, page, dataVars, restarts>>

Restart ==
  /\ restarts < MaxRestarts
  /\ restarts' = restarts + 1
  /\ HttpCrash
  /\ SessionCrash
  /\ bodies' = {}
  /\ UNCHANGED <<browserVars, users, found>>

Next ==
  \/ \E r \in Request : Ask(r) \/ Serve(r) \/ Handle(r) \/ Deliver(r)
  \/ Tick \/ Restart

Spec == Init /\ [][Next]_vars

-----------------------------------------------------------------------------
(* Properties. *)

CookieType  == [id : Id \cup {None}, at : Int, age : Int]
HeaderType  == [csrf : Token \cup {None}, sid : CookieType \cup {None},
                to : {None, "/", "/login", "other"}, frame : BOOLEAN]
BodyType    == [kind : {"none", "text", "form", "top"}, value : Token \cup {NoUser, None}]
AnswerType  == [status : Nat, header : HeaderType, body : BodyType]
ContextType == [owner : Request \cup {None}, status : Nat, written : BOOLEAN,
                errors : SUBSET Request]
AskType     == [browser : Browser, method : {"GET", "POST"},
                handler : Handlers \cup {"NoRoute", "OtherSlash"},
                csrf : Token \cup {None}, sid : CookieType \cup {None},
                form : Token \cup {None}, email : Email \cup {None},
                password : Password \cup {None}]
SessionType == [id : Id \cup {None}, values : SUBSET ({KeyWritten} \X (Id \cup {NoUser, None})),
                age : Int, bad : BOOLEAN]
RecordType  == [values : SUBSET ({KeyWritten} \X (Id \cup {NoUser, None})), until : Int]
RowType     == [email : Email, password : Password]

\* None stands for what is not there.
ASSUME AbsenceAssumption ==
  None \notin CookieType \cup AnswerType \cup AskType \cup SessionType \cup RecordType \cup RowType

\* The fields have the values the code gives them.
TypeOK ==
  /\ ask \in [Request -> AskType \cup {None}]
  /\ context \in [Context -> ContextType]
  /\ header \in [Request -> HeaderType]
  /\ answer \in [Request -> AnswerType \cup {None}]
  /\ registry \in [Request -> SessionType \cup {None}]
  /\ store \in [Id -> RecordType \cup {None}]
  /\ users \in [Id -> RowType \cup {None}]
  /\ jar \in [Browser -> [csrf : Token \cup {None}, sid : CookieType \cup {None}]]
  /\ restarts \in Nat
  /\ stage \in [Request -> Waiting \cup Over \cup Handlers \cup
       {"refused", "session", "show", "form", "keep", "destroy", "read",
        "unrouted", "slash", "returned", "panicked"}]
  /\ tokens \in [Request -> Token \cup {None}]
  /\ slot \in [Request -> Context \cup {None}]
  /\ ginPool \subseteq Context
  /\ settings \subseteq MaxAges /\ maxAge \in settings /\ now \in 0 .. MaxNow
  /\ page \in [Browser -> Token \cup {None}]
  /\ \A i \in Id : store[i] # None => store[i].until > now
  /\ found \in [Request -> Id \cup {NoUser, None}]
  /\ bodies \subseteq Request

\* What a request leaves in the process when it is over: no CSRF token, no upstream
\* body unless reading it failed; and its session, which nothing clears while the process
\* runs.
WhatStaysBehind ==
  \A r \in Request :
    /\ tokens[r] # None <=> stage[r] \notin Waiting \cup Over
    /\ r \in bodies => stage[r] \in {"read", "returned"} \/ answer[r].status = 500
    /\ stage[r] = "done" /\ answer[r].body.kind = "top" /\ restarts = 0 => registry[r] # None

\* Every request that was served has an answer, a panic included; a login that is
\* answered like a success has its session in a cookie, or none is kept at all.
Answered ==
  \A r \in Request : stage[r] = "done" =>
    /\ answer[r] # None
    /\ ask[r].handler = "Authenticate" /\ answer[r].status = 301 =>
         /\ answer[r].header.to = "/"
         /\ answer[r].header.sid # None

Issued(b) == {r \in Request : ask[r] # None /\ ask[r].browser = b /\ header[r].csrf # None}

\* The form a browser shows passes the check with the browser's cookie, unless two of
\* its requests came without one and each was given a token.
PageMatchesCookie ==
  \A b \in Browser : page[b] # None =>
    verifyToken(jar[b].csrf, page[b]) \/ Cardinality(Issued(b)) > 1

\* The browser's cookie was logged out by an answered request.
LoggedOut(id) ==
  \E r \in Request : /\ ask[r] # None /\ ask[r].handler = "Logout"
                     /\ ask[r].sid # None /\ ask[r].sid.id = id
                     /\ answer[r] # None /\ answer[r].status = 301

DeletedBy(r, id) ==
  /\ ask[r] # None /\ ask[r].sid # None /\ ask[r].sid.id = id
  /\ ask[r].handler = "Logout"
  /\ stage[r] \notin {"new", "asked", "session", "destroy"}

\* The server has never had a setting that lets cookies or records live shorter than
\* the browser keeps this cookie; 0 stands for the store's own age.
NeverShorter(cookie) == \A m \in settings : m >= 0 /\ Ttl(m) >= cookie.age

\* As long as a browser keeps a session cookie with an age the server decodes it and
\* finds its record, over restarts with the same or a longer setting and crashes in the
\* middle of a request.  Only a logout with the cookie deletes the record (one that was
\* lost in a crash may have).
CookieFindsRecord ==
  \A b \in Browser : LET c == jar[b].sid IN
    c # None /\ c.age > 0 /\ NeverShorter(c) =>
      Decodes(c) /\ (store[c.id] # None \/ \E r \in Request : DeletedBy(r, c.id))

\* No two browsers have the same session.
SessionsApart ==
  \A a, b \in Browser :
    jar[a].sid # None /\ jar[b].sid # None /\ jar[a].sid.id = jar[b].sid.id => a = b

\* A session that was logged out is stored only if a login came with its cookie and is
\* past saving it: as long as none has come so far (answered, or ended by a refusal, a
\* panic or a crash) the session is gone.
LogoutEndsSession ==
  \A id \in Id : LoggedOut(id) /\ store[id] # None =>
    \E r \in Request : /\ ask[r] # None /\ ask[r].handler = "Authenticate"
                       /\ ask[r].sid # None /\ ask[r].sid.id = id
                       /\ stage[r] \notin Waiting \cup {"Authenticate", "session", "keep"}

\* The top page knows no user, whoever has logged in: the id is read under another key
\* than it is saved.
NeverSignedIn ==
  \A r \in Request : answer[r] # None /\ answer[r].body.kind = "top" =>
    answer[r].body.value = NoUser
=============================================================================
