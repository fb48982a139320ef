----------------------------- MODULE RouteTree -----------------------------
(***************************************************************************)
(* gin's radix tree of routes for one method: addRoute, insertChild and    *)
(* getValue, as functions on nodes.  A path is a sequence of symbols.  The *)
(* properties compare it with a reference that looks at one route at a     *)
(* time.                                                                   *)
(***************************************************************************)
EXTENDS Naturals, Sequences, SequencesExt, TLC

CONSTANTS
  Patterns,   \* paths that may be registered, in any order
  MainPatterns, \* those of main.go
  Requests,   \* paths that are looked up
  MaxRoutes,  \* bound: routes registered
  None

VARIABLES
  root,      \* the tree of the method
  routes,    \* the patterns it has accepted
  refused    \* the pattern addRoute panicked on, which ends the program; or None

vars == <<root, routes, refused>>

Node == [path |-> <<>>, wild |-> FALSE, type |-> "static", maxParams |-> 0,
         indices |-> <<>>, children |-> <<>>, handler |-> None, priority |-> 0]

Panic == [Node EXCEPT !.type = "panic"]

Wildcards == {":", "*"}

Larger(a, b) == IF a > b THEN a ELSE b

From(path, i) == SubSeq(path, i, Len(path))

\* The position of the first symbol of path from i on that is in set, or one past the end.
RECURSIVE IndexIn(_, _, _)
IndexIn(path, i, set) ==
  IF i > Len(path) \/ path[i] \in set THEN i ELSE IndexIn(path, i + 1, set)

countParams(path) == Len(SelectSeq(path, LAMBDA x : x \in Wildcards))

CommonPrefix(p, q) == Len(LongestCommonPrefix({p, q}))

-----------------------------------------------------------------------------
(* addRoute *)

\* Fault: the index symbols stay where they were.
incrementChildPrioOnly(n, pos) ==
  LET child  == [n.children[pos] EXCEPT !.priority = @ + 1]
      newPos == CHOOSE i \in 1 .. pos :
                  /\ \A j \in i .. pos - 1 : n.children[j].priority < child.priority
                  /\ i > 1 => n.children[i - 1].priority >= child.priority
  IN  [node |-> [n EXCEPT !.children = InsertAt(RemoveAt(@, pos), newPos, child)],
       pos  |-> newPos]

\* The child at pos has one more route and moves before those that have fewer.
incrementChildPrio(n, pos) ==
  LET child  == [n.children[pos] EXCEPT !.priority = @ + 1]
      newPos == CHOOSE i \in 1 .. pos :
                  /\ \A j \in i .. pos - 1 : n.children[j].priority < child.priority
                  /\ i > 1 => n.children[i - 1].priority >= child.priority
      move(s, x) == InsertAt(RemoveAt(s, pos), newPos, x)
  IN  [node |-> [n EXCEPT !.children = move(@, child), !.indices = move(@, n.indices[pos])],
       pos  |-> newPos]

\* The edge to n is cut after i symbols.
Split(n, i) ==
  LET most  == LET widths == {0} \cup {c.maxParams : c \in ToSet(n.children)}
               IN  CHOOSE m \in widths : \A x \in widths : m >= x
      child == [n EXCEPT !.path = From(@, i + 1), !.type = "static", !.maxParams = most,
                         !.priority = @ - 1]
  IN  [n EXCEPT !.children = <<child>>, !.indices = <<n.path[i + 1]>>,
                !.path = SubSeq(@, 1, i), !.handler = None, !.wild = FALSE]

\* insertChild: the rest of a path below the fresh, or childless, node n; the offset of
\* the code is cut off the path.
RECURSIVE insertChild(_, _, _, _)
insertChild(n, numParams, path, handler) ==
  LET i   == IndexIn(path, 1, Wildcards)
      end == IndexIn(path, i + 1, {"/"} \cup Wildcards)
      max == Len(path) + 1
      own == IF i > 1 THEN SubSeq(path, 1, i - 1) ELSE n.path
      param(inner) == [n EXCEPT !.path = own, !.wild = TRUE, !.children = <<inner>>]
      child == [Node EXCEPT !.type = "param", !.maxParams = numParams, !.priority = 1]
  IN  CASE i = max -> [n EXCEPT !.path = path, !.handler = handler]
        [] i < max /\ (\/ end < max /\ path[end] \in Wildcards
                       \/ n.children # <<>>
                       \/ end - i < 2) -> Panic
        [] OTHER ->
             IF path[i] = ":"
             THEN IF end = max
                  THEN param([child EXCEPT !.path = From(path, i), !.handler = handler])
                  ELSE LET below == insertChild([Node EXCEPT !.maxParams = numParams - 1,
                                                             !.priority = 1],
                                                numParams - 1, From(path, end), handler)
                       IN  IF below = Panic THEN Panic
                           ELSE param([child EXCEPT !.path = SubSeq(path, i, end - 1),
                                                    !.children = <<below>>])
             ELSE IF \/ end # max \/ numParams > 1
                     \/ n.path # <<>> /\ Last(n.path) = "/"
                     \/ i = 1 \/ path[i - 1] # "/"
                  THEN Panic
                  ELSE LET leaf == [Node EXCEPT !.path = From(path, i - 1), !.type = "catchAll",
                                                !.maxParams = 1, !.handler = handler, !.priority = 1]
                           all  == [Node EXCEPT !.wild = TRUE, !.type = "catchAll", !.maxParams = 1,
                                                !.children = <<leaf>>, !.priority = 1]
                       IN  [n EXCEPT !.path = SubSeq(path, 1, i - 2), !.children = <<all>>,
                                     !.indices = <<"/">>]

\* n with its child at pos replaced, unless that panicked.
WithChild(n, pos, child) ==
  IF child = Panic THEN Panic ELSE [n EXCEPT !.children[pos] = child]

\* Fault: longer wildcards are not told apart.
ContinuesAny(n, path) == IsPrefix(n.path, path)

\* The wildcard n is the first segment of path, and no longer one is.
Continues(n, path) ==
  /\ IsPrefix(n.path, path)
  /\ Len(n.path) < Len(path) => path[Len(n.path) + 1] = "/"

RECURSIVE Walk(_, _, _, _)
Walk(node, path, numParams, handler) ==
  LET i    == CommonPrefix(path, node.path)
      wide == [node EXCEPT !.maxParams = Larger(@, numParams)]
      n    == IF i < Len(node.path) THEN Split(wide, i) ELSE wide
      rest == From(path, i + 1)
      c    == rest[1]
      wild == [n.children[1] EXCEPT !.priority = @ + 1, !.maxParams = Larger(@, numParams)]
  IN  CASE rest = <<>> /\ n.handler = None -> [n EXCEPT !.handler = handler]
        [] rest = <<>> /\ n.handler # None -> Panic
        [] rest # <<>> /\ n.wild ->
             IF Continues(wild, rest)
             THEN WithChild(n, 1, Walk(wild, rest, numParams - 1, handler))
             ELSE Panic
        [] rest # <<>> /\ ~n.wild /\ n.type = "param" /\ c = "/" /\ Len(n.children) = 1 ->
             WithChild(n, 1, Walk([n.children[1] EXCEPT !.priority = @ + 1],
                                  rest, numParams, handler))
        [] OTHER ->
             IF c \in ToSet(n.indices)
             THEN LET up == incrementChildPrio(n, IndexIn(n.indices, 1, {c}))
                  IN  WithChild(up.node, up.pos,
                                Walk(up.node.children[up.pos], rest, numParams, handler))
             ELSE IF c \in Wildcards THEN insertChild(n, numParams, rest, handler)
             ELSE LET more == [n EXCEPT !.indices = Append(@, c),
                                        !.children = Append(@, [Node EXCEPT !.maxParams = numParams])]
                      up   == incrementChildPrio(more, Len(more.indices))
                  IN  WithChild(up.node, up.pos,
                                insertChild(up.node.children[up.pos], numParams, rest, handler))

\* The handler of a route is named by its path.
addRoute(n, path) ==
  LET more == [n EXCEPT !.priority = @ + 1]
  IN  IF n.path # <<>> \/ n.children # <<>>
      THEN Walk(more, path, countParams(path), path)
      ELSE insertChild(more, countParams(path), path, path)

-----------------------------------------------------------------------------
(* getValue: the handler, the parameters as <<key, value>> and the advice to   *)
(* redirect.  cap is the capacity of the slice p, which is 0 for a new context. *)

Result(handler, p, tsr) == [handler |-> handler, params |-> p, tsr |-> tsr]

\* p with one more parameter: the slice is made anew, and empty, if its capacity is less
\* than the node says, and cannot grow beyond it.
Expand(n, p, cap) ==
  IF cap < n.maxParams THEN [p |-> <<>>, cap |-> n.maxParams] ELSE [p |-> p, cap |-> cap]

Save(s, key, value) ==
  IF Len(s.p) < s.cap THEN Append(s.p, <<key, value>>) ELSE Assert(FALSE, "slice bounds out of range")

\* Fault: a catch-all is not taken for a route with a slash.
SlashLeafBelow(n) ==
  LET slash == n.children[IndexIn(n.indices, 1, {"/"})]
  IN  /\ "/" \in ToSet(n.indices)
      /\ Len(slash.path) = 1 /\ slash.handler # None

\* A route with a slash after the path of n.
SlashBelow(n) ==
  LET slash == n.children[IndexIn(n.indices, 1, {"/"})]
  IN  /\ "/" \in ToSet(n.indices)
      /\ \/ Len(slash.path) = 1 /\ slash.handler # None
         \/ slash.type = "catchAll" /\ slash.children[1].handler # None

NextSegment(path) == IndexIn(path, 1, {"/"})

RECURSIVE getValue(_, _, _, _)
getValue(n, path, po, cap) ==
  LET rest  == From(path, Len(n.path) + 1)
      wild  == n.children[1]
      s     == Expand(wild, po, cap)
      end   == NextSegment(rest)
  IN  IF Len(path) > Len(n.path) /\ IsPrefix(n.path, path)
      THEN IF ~n.wild
           THEN IF rest[1] \in ToSet(n.indices)
                THEN getValue(n.children[IndexIn(n.indices, 1, {rest[1]})], rest, po, cap)
                ELSE Result(None, po, rest = <<"/">> /\ n.handler # None)
           ELSE IF wild.type = "catchAll"
           THEN Result(wild.handler, Save(s, From(wild.path, 3), rest), FALSE)
           ELSE LET p == Save(s, From(wild.path, 2), SubSeq(rest, 1, end - 1))
                IN  CASE end <= Len(rest) /\ wild.children # <<>> ->
                           getValue(wild.children[1], From(rest, end), p, s.cap)
                      [] end <= Len(rest) /\ wild.children = <<>> ->
                           Result(None, p, Len(rest) = end)
                      [] OTHER ->
                           Result(wild.handler, p,
                                  /\ wild.handler = None /\ Len(wild.children) = 1
                                  /\ wild.children[1].path = <<"/">>
                                  /\ wild.children[1].handler # None)
      ELSE IF path = n.path
      THEN Result(n.handler, po, n.handler = None /\ SlashBelow(n))
      ELSE Result(None, po,
                  \/ path = <<"/">>
                  \/ n.path = Append(path, "/") /\ n.handler # None)

\* handleHTTPRequest with a context whose slice has the capacity of an earlier request.
LookedUp(path, cap) == getValue(root, path, <<>>, cap)

-----------------------------------------------------------------------------

Init ==
  /\ root = Node
  /\ routes = {}
  /\ refused = None

Register(path) ==
  /\ refused = None /\ path \notin routes
  /\ LET n == addRoute(root, path)
     IN  \/ /\ n = Panic
            /\ refused' = path
            /\ UNCHANGED <<root, routes>>
         \/ /\ n # Panic
            /\ root' = n
            /\ routes' = routes \cup {path}
            /\ UNCHANGED refused
  \* bound
  /\ Cardinality(routes) < MaxRoutes

Next == \E path \in Patterns : Register(path)

Spec == Init /\ [][Next]_vars

-----------------------------------------------------------------------------
(* The reference. *)

\* The parameters path has under one pattern, in a set that is empty if it does not match.
RECURSIVE Binds(_, _)
Binds(pattern, path) ==
  LET after == IndexIn(pattern, 2, {"/"})
      end   == NextSegment(path)
  IN  CASE pattern = <<>> -> IF path = <<>> THEN {<<>>} ELSE {}
        [] pattern # <<>> /\ path = <<>> -> {}
        [] OTHER ->
             IF Len(pattern) > 1 /\ pattern[2] = "*"
             THEN IF path[1] = "/" THEN {<< <<From(pattern, 3), path>> >>} ELSE {}
             ELSE IF pattern[1] = ":"
             THEN {<< <<SubSeq(pattern, 2, after - 1), SubSeq(path, 1, end - 1)>> >> \o others :
                     others \in Binds(From(pattern, after), From(path, end))}
             ELSE IF pattern[1] = path[1] THEN Binds(Tail(pattern), Tail(path)) ELSE {}

\* Two patterns that cannot be registered together: equal ones, ones with a wildcard
\* where the other has something else, and a catch-all with the directory it is for.
RECURSIVE Conflict(_, _)
Conflict(p, q) ==
  LET segment(s) == SubSeq(s, 1, NextSegment(s) - 1)
  IN  CASE p = <<>> \/ q = <<>> -> p = q \/ (p \o q)[1] = "*"
        [] p # <<>> /\ q # <<>> /\ Wildcards \cap {p[1], q[1]} # {} ->
             \/ "*" \in {p[1], q[1]}
             \/ segment(p) # segment(q)
             \/ Conflict(From(p, NextSegment(p)), From(q, NextSegment(q)))
        [] OTHER -> p[1] = q[1] /\ Conflict(Tail(p), Tail(q))

OtherSlash(path) == IF Last(path) = "/" THEN Front(path) ELSE Append(path, "/")

Matching(path) == {route \in routes : Binds(route, path) # {}}

-----------------------------------------------------------------------------
(* Properties. *)

Capacities == {0, 1, 2}

\* In whatever order the routes were registered, a path finds the one that matches it,
\* with all its parameters, whatever the context it is looked up with was used for.
FindsItsRoute ==
  routes # {} => \A path \in Requests, cap \in Capacities :
    LET found == LookedUp(path, cap)
    IN  IF Matching(path) = {} THEN found.handler = None
        ELSE Matching(path) = {found.handler} /\ found.params \in Binds(found.handler, path)

\* A route is refused because of one that is registered and conflicts with it, so what
\* can be registered does not depend on the order.
RefusesConflictsOnly ==
  /\ refused # None => \E route \in routes : Conflict(refused, route)
  /\ \A p, q \in routes : p # q => ~Conflict(p, q)

\* With the routes of main.go, a path without one is sent to the path with or without a
\* slash at its end exactly if that has a route.
RedirectsLead ==
  routes # {} /\ routes \subseteq MainPatterns => \A path \in Requests \ { <<"/">> } :
    LET found == LookedUp(path, 0)
    IN  found.handler = None => (found.tsr <=> Matching(OtherSlash(path)) # {})
=============================================================================
