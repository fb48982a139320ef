-------------------------------- MODULE Http --------------------------------
(***************************************************************************)
(* What every request goes through: nosurf's handler around gin's engine,  *)
(* the pool of gin contexts, the middleware of main.go and the response    *)
(* writer.  Routing is given by the request (RouteTree.tla has the tree),  *)
(* a handler is one or more steps of the module that extends this one.     *)
(***************************************************************************)
EXTENDS Integers, FiniteSets

CONSTANTS
  Request,   \* one *http.Request each; also what the server makes up for it: a
             \* CSRF token, a session id, a row id
  Browser,   \* also what it got from the server before Init
  Context,   \* gin contexts
  None

ASSUME NoneAssumption == None \notin Request \cup Browser \cup Context
ASSUME IdsAssumption == Request \cap Browser = {} /\ IsFiniteSet(Request)

VARIABLES
  stage,    \* how far each request has come
  ask,      \* what it asks
  tokens,   \* nosurf's contextMap: the token of each request, None without entry
  ginPool,  \* contexts in engine.pool
  slot,     \* the context each request has
  context,  \* the fields of each context that outlive a request
  header,   \* the header map of each request's http.ResponseWriter
  answer    \* what was written to the client, with the header as it was then

httpVars == <<stage, ask, tokens, ginPool, slot, context, header, answer>>

Token == Request \cup Browser

\* csrf: the token cookie to set; sid: the session cookie to set; to: Location;
\* frame: X-Frame-Options.
EmptyHeader == [csrf |-> None, sid |-> None, to |-> None, frame |-> FALSE]

NoBody       == [kind |-> "none", value |-> None]
Text         == [kind |-> "text", value |-> None]
Form(token)  == [kind |-> "form", value |-> token]
TopPage(who) == [kind |-> "top", value |-> who]

\* A context: errors stands for c.Errors, named by the requests that left them.
NewContext == [owner |-> None, status |-> 200, written |-> FALSE, errors |-> {}]

HttpInit ==
  /\ stage = [r \in Request |-> "new"]
  /\ ask = [r \in Request |-> None]
  /\ tokens = [r \in Request |-> None]
  /\ ginPool = {}
  /\ slot = [r \in Request |-> None]
  /\ context = [c \in Context |-> NewContext]
  /\ header = [r \in Request |-> EmptyHeader]
  /\ answer = [r \in Request |-> None]

Moved(r, to) == stage' = [stage EXCEPT ![r] = to]

-----------------------------------------------------------------------------
(* nosurf. *)

SafeMethods == {"GET", "HEAD", "OPTIONS", "TRACE"}

\* Fault: the new token is kept for the page and not sent as a cookie.
setTokenCookieQuietly(r, token) ==
  /\ tokens' = [tokens EXCEPT ![r] = token]
  /\ UNCHANGED header

setTokenCookie(r, token) ==
  /\ tokens' = [tokens EXCEPT ![r] = token]
  /\ header' = [header EXCEPT ![r].csrf = token]

\* The token of a cookie that is absent or has not the length of a token is made
\* anew; the check below still sees the old one.
GetToken(r) ==
  \/ /\ ask[r].csrf # None
     /\ tokens' = [tokens EXCEPT ![r] = ask[r].csrf]
     /\ UNCHANGED header
  \/ /\ ask[r].csrf = None
     /\ setTokenCookie(r, r)

verifyToken(real, sent) == real # None /\ real = sent

Passes(r) == ask[r].method \in SafeMethods \/ verifyToken(ask[r].csrf, ask[r].form)

-----------------------------------------------------------------------------
(* gin: the context of a request and its writer. *)

\* Fault: the errors of the last request stay.
ResetWriter(c, r) == [c EXCEPT !.owner = r, !.status = 200, !.written = FALSE]

Reset(c, r) == [NewContext EXCEPT !.owner = r]

\* pool.Get: any context that was put back, or a new one.  The pool may have dropped
\* what was put back.
Unheld == Context \ {slot[r] : r \in Request}

\* Engine.ServeHTTP up to the handler, which starts at stage to.
Dispatch(r, to) ==
  /\ \E c \in Unheld :
       /\ slot' = [slot EXCEPT ![r] = c]
       /\ context' = [context EXCEPT ![c] = Reset(@, r)]
       /\ ginPool' = ginPool \ {c}
  /\ Moved(r, to)
  /\ UNCHANGED answer

\* The failure handler of nosurf.
Refuse(r) ==
  /\ answer' = [answer EXCEPT ![r] =
                  [status |-> 400, header |-> header'[r], body |-> NoBody]]
  /\ Moved(r, "refused")
  /\ UNCHANGED <<ginPool, slot, context>>

\* CSRFHandler.ServeHTTP: the engine, or the failure handler.
ServeHTTP(r, to) ==
  /\ stage[r] = "asked"
  /\ GetToken(r)
  /\ \/ Passes(r) /\ Dispatch(r, to)
     \/ ~Passes(r) /\ Refuse(r)
  /\ UNCHANGED ask

Writer(r) == context[slot[r]]

\* WriteHeader only notes the status.
Noted(w, code) == [w EXCEPT !.status = code]

\* WriteHeaderNow, and the body that may follow.
Written(w) == [w EXCEPT !.written = TRUE]

\* The answer once writer w and the headers h of r are committed with the body.
Sent(w, h, body) == [status |-> w.status, header |-> h, body |-> body]

\* The handler of r, with headers h, writes a body: the header goes out before it.
Write(r, h, code, body) ==
  /\ context' = [context EXCEPT ![slot[r]] = Written(Noted(@, code))]
  /\ answer' = [answer EXCEPT ![r] =
                  IF Writer(r).written THEN @ ELSE Sent(Noted(Writer(r), code), h, body)]

\* Context.Redirect with headers h: only a GET gets a body.
Redirect(r, h) ==
  /\ header' = [header EXCEPT ![r] = h]
  /\ IF ask[r].method = "GET"
     THEN Write(r, h, 301, Text)
     ELSE /\ context' = [context EXCEPT ![slot[r]] = Noted(@, 301)]
          /\ UNCHANGED answer

Aborted(w, code, r) == [w EXCEPT !.status = code, !.errors = @ \cup {r}]

\* Context.AbortWithError: the chain ends, the status is noted, nothing is written.
AbortWithError(r, code) ==
  /\ context' = [context EXCEPT ![slot[r]] = Aborted(@, code, r)]
  /\ UNCHANGED <<header, answer>>

-----------------------------------------------------------------------------
(* The way back through noFrame, the logger and the recovery. *)

\* Fault: noFrame adds its header before c.Next().
noFrameFirst(r) == [answer EXCEPT ![r] = IF @ = None THEN @ ELSE [@ EXCEPT !.header.frame = TRUE]]

\* The header is added after c.Next(): what was sent keeps the header it had.
noFrame(r) == answer

\* WriteHeaderNow at the end of handleHTTPRequest, or serveError's default body.
Flush(r, w, h, body, sent) ==
  answer' = [sent EXCEPT ![r] = IF w.written THEN @ ELSE Sent(w, h, body)]

ctxClear(r) == tokens' = [tokens EXCEPT ![r] = None]

\* nosurf's deferred ctxClear, and the request is over.
Finish(r) ==
  /\ ctxClear(r)
  /\ Moved(r, "done")
  /\ UNCHANGED <<ask, context>>

\* pool.Put
GiveBack(r) ==
  /\ ginPool' = ginPool \cup {slot[r]}
  /\ slot' = [slot EXCEPT ![r] = None]
  /\ Finish(r)

\* The handler returned.
Return(r) ==
  /\ stage[r] = "returned"
  /\ header' = [header EXCEPT ![r].frame = TRUE]
  /\ Flush(r, Writer(r), header'[r], NoBody, noFrame(r))
  /\ GiveBack(r)

\* No route: the middleware runs, then the default body is written.
NoRoute(r) ==
  /\ stage[r] = "unrouted"
  /\ header' = [header EXCEPT ![r].frame = TRUE]
  /\ Flush(r, Noted(Writer(r), 404), header'[r], Text, answer)
  /\ GiveBack(r)

\* redirectTrailingSlash: no middleware runs.
OtherSlash(r) ==
  /\ stage[r] = "slash"
  /\ header' = [header EXCEPT ![r].to = "other"]
  /\ Flush(r, Noted(Writer(r), IF ask[r].method = "GET" THEN 301 ELSE 307), header'[r],
           IF ask[r].method = "GET" THEN Text ELSE NoBody, answer)
  /\ GiveBack(r)

\* Fault: nothing recovers, net/http closes the connection.
PanicUnrecovered(r) ==
  /\ stage[r] = "panicked"
  /\ slot' = [slot EXCEPT ![r] = None]
  /\ Finish(r)
  /\ UNCHANGED <<ginPool, header, answer>>

\* The handler panicked: Recovery, which is around the other middleware.
Recover(r) ==
  /\ stage[r] = "panicked"
  /\ Flush(r, Noted(Writer(r), 500), header[r], NoBody, answer)
  /\ GiveBack(r)
  /\ UNCHANGED header

\* The failure handler returned.
Refused(r) ==
  /\ stage[r] = "refused"
  /\ Finish(r)
  /\ UNCHANGED <<ginPool, slot, header, answer>>

\* ServeHTTP returns to net/http.
Ends(r) == Return(r) \/ NoRoute(r) \/ OtherSlash(r) \/ Recover(r) \/ Refused(r)

\* The process dies.
HttpCrash ==
  /\ stage' = [r \in Request |-> IF stage[r] \in {"new", "done"} THEN stage[r] ELSE "lost"]
  /\ tokens' = [r \in Request |-> None]
  /\ ginPool' = {}
  /\ slot' = [r \in Request |-> None]
  /\ context' = [c \in Context |-> NewContext]
  /\ UNCHANGED <<ask, header, answer>>

-----------------------------------------------------------------------------
(* Properties. *)

Waiting == {"new", "asked"}
Over    == {"done", "lost"}
Handled == {r \in Request : stage[r] \notin Waiting \cup Over \cup {"refused"}}

\* A context serves one request at a time and shows it nothing of the others.
OwnContext ==
  /\ \A r \in Request : r \in Handled <=> slot[r] # None
  /\ \A r \in Handled :
       /\ slot[r] \notin ginPool
       /\ context[slot[r]].owner = r
       /\ context[slot[r]].errors \subseteq {r}

\* X-Frame-Options goes out with what has no body (redirects of a POST, an unchanged
\* file) and with the 404 of gin, and never with a page.
FrameOnlyWithoutBody ==
  \A r \in Request : answer[r] # None =>
    /\ answer[r].header.frame => answer[r].body = NoBody \/ answer[r].status = 404
    /\ answer[r].body = NoBody /\ answer[r].status = 301 => answer[r].header.frame
=============================================================================
