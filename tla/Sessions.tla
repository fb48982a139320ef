------------------------------ MODULE Sessions ------------------------------
(***************************************************************************)
(* session/session.go with the gorilla registry, the Redis store and the   *)
(* signed cookie under it.  An exchange with Redis is one step that works  *)
(* or fails (RedisPool.tla has the connections); one that fails may have   *)
(* been carried out.                                                       *)
(***************************************************************************)
EXTENDS Http

CONSTANTS
  MaxAges,         \* what SESSION_MAX_AGE may come to; 0 also stands for no number
  DefaultMaxAge,   \* of the store, for records of a session without maximum age
  MaxNow           \* bound: the time

ASSUME AgesAssumption == MaxAges \subseteq Int /\ DefaultMaxAge \in Nat \ {0} /\ MaxNow \in Nat \ {0}

VARIABLES
  maxAge,     \* of the running process: store.Options and the codec
  settings,   \* history: the maxAge of every process so far
  now,        \* in units of the ages
  registry,   \* gorilla's context.data: the session of each request that has one
  store       \* the records in Redis by session id

sessionVars == <<maxAge, settings, now, registry, store>>

Id == Request \cup Browser

\* Values is a set of pairs with one value per key; age is Options.MaxAge; bad: the
\* cookie could not be decoded.
NewSession == [id |-> None, values |-> {}, age |-> maxAge, bad |-> FALSE]

SetValue(values, key, v) == {p \in values : p[1] # key} \cup {<<key, v>>}

ValueOf(values, key) ==
  IF \E p \in values : p[1] = key THEN (CHOOSE p \in values : p[1] = key)[2] ELSE None

-----------------------------------------------------------------------------
(* Cookies: what NewCookie and the codec make of an id. *)

Cookie(id, age) == [id |-> id, at |-> now, age |-> age]

\* The browser drops it at its age; without one it lasts as long as the browser runs.
Lives(cookie, time) == cookie.age = 0 \/ time < cookie.at + cookie.age

Decodes(cookie) == maxAge = 0 \/ cookie.at >= now - maxAge

-----------------------------------------------------------------------------
(* The store. *)

\* Fault: an age of 0 is passed on.
TtlAsGiven(age) == age

Ttl(age) == IF age = 0 THEN DefaultMaxAge ELSE age

\* RediStore.New: a record that is missing or cannot be loaded gives an empty session
\* with the id of the cookie; err is the one of the cookie.
New(cookie) ==
  IF cookie = None THEN {NewSession}
  ELSE IF ~Decodes(cookie) THEN {[NewSession EXCEPT !.bad = TRUE]}
  ELSE {[NewSession EXCEPT !.id = cookie.id, !.values = v] :
          v \in {{}} \cup {store[i].values : i \in {i \in {cookie.id} : store[i] # None}}}

\* GetSession: the session is registered whatever its error, then the error panics.
GetSession(r, to) ==
  /\ \E s \in New(ask[r].sid) :
       /\ registry' = [registry EXCEPT ![r] = s]
       /\ Moved(r, IF s.bad THEN "panicked" ELSE to)
  /\ UNCHANGED <<maxAge, settings, now, store>>

\* Fault: the key is the same for every new session.
NewIdShared(r) == CHOOSE q \in Request : TRUE

NewId(r) == r

\* Fault: what is marked for deletion keeps its record.
DeletedKept(s) == store

Deleted(s) == [i \in Id |-> IF i = s.id THEN None ELSE store[i]]

Saved(s) == [store EXCEPT ![s.id] = [values |-> s.values, until |-> now + Ttl(s.age)]]

\* Fault: an error of the store is ignored.
SaveIgnored(r, s, onward) ==
  LET kept == IF s.id = None /\ s.age >= 0 THEN [s EXCEPT !.id = NewId(r)] ELSE s
  IN  /\ registry' = [registry EXCEPT ![r] = kept]
      /\ store' \in {store, IF s.age < 0 THEN Deleted(s) ELSE Saved(kept)}
      /\ onward
      /\ UNCHANGED <<maxAge, settings, now>>

\* sessions.Save of session s, then Save of session.go panics if it failed: the cookie
\* is set only after the store has answered.
Save(r, s, onward) ==
  LET kept == IF s.id = None /\ s.age >= 0 THEN [s EXCEPT !.id = NewId(r)] ELSE s
      after == IF s.age < 0 THEN Deleted(s) ELSE Saved(kept)
  IN  /\ registry' = [registry EXCEPT ![r] = kept]
      /\ \/ /\ store' = after
            /\ onward
         \/ /\ store' \in {store, after}
            /\ Moved(r, "panicked")
            /\ UNCHANGED <<ginPool, slot, context, header, answer>>
      /\ UNCHANGED <<maxAge, settings, now>>

SetCookie(r, s) ==
  [header[r] EXCEPT !.sid = Cookie(IF s.age < 0 THEN None ELSE IF s.id = None THEN NewId(r) ELSE s.id,
                                   s.age)]

-----------------------------------------------------------------------------
(* Redis, the clock and the process. *)

Passed(time) ==
  [i \in Id |-> IF store[i] # None /\ store[i].until <= time THEN None ELSE store[i]]

\* The registry is in memory; SESSION_MAX_AGE may have been set anew.
SessionCrash ==
  /\ maxAge' \in MaxAges
  /\ settings' = settings \cup {maxAge'}
  /\ registry' = [r \in Request |-> None]
  /\ UNCHANGED <<now, store>>
=============================================================================
