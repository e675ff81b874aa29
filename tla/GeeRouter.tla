------------------------------ MODULE GeeRouter -------------------------------
(***************************************************************************)
(* The router of gee for one method (gee router.go, trie.go).  A pattern   *)
(* and the path of a request are sequences of parts.  A node of the trie   *)
(* is the sequence of the parts on the way to it; nodes are kept in the    *)
(* order they were made, which is the order of every list of children.     *)
(***************************************************************************)
EXTENDS Integers, Sequences, SequencesExt

CONSTANTS Parts,      \* parts of patterns and paths
          Patterns,   \* patterns that may be registered
          Requests,   \* paths of requests
          Wild,       \* parts that begin with : or *
          Star,       \* those that begin with *, the last of their pattern
          MaxRoutes,  \* bound: routes registered
          NoRoute

ASSUME RouterAssumption ==
  /\ Patterns \subseteq Seq(Parts) /\ Requests \subseteq Seq(Parts)
  /\ Star \subseteq Wild /\ MaxRoutes \in Nat /\ NoRoute \notin Patterns
  /\ \A p \in Patterns : \A i \in DOMAIN p : p[i] \in Star => i = Len(p)

VARIABLES trie,    \* nodes, and the pattern each one has
          routes   \* history: the patterns registered, in order

routerVars == <<trie, routes>>

RouterTypeOK ==
  /\ ToSet(trie.nodes) = DOMAIN trie.pattern
  /\ << >> \in DOMAIN trie.pattern
  /\ \A n \in DOMAIN trie.pattern :
       /\ trie.pattern[n] \in Patterns \cup {NoRoute}
       /\ n # << >> => Front(n) \in DOMAIN trie.pattern

RouterInit ==
  /\ trie = [nodes |-> << << >> >>, pattern |-> [n \in {<< >>} |-> NoRoute]]
  /\ routes = << >>

(* matchChildren: the places of the children of node n that fit a part;    *)
(* matchChild is the first of them                                         *)
Fits(own, part) == own = part \/ own \in Wild
matchChildren(t, n, part) ==
  {i \in DOMAIN t.nodes :
     t.nodes[i] # << >> /\ Front(t.nodes[i]) = n /\ Fits(Last(t.nodes[i]), part)}

(* One level of insert: into the child that fits, or into a new one *)
NewChild(t, child) ==
  [nodes |-> Append(t.nodes, child),
   pattern |-> [n \in DOMAIN t.pattern \cup {child} |->
                  IF n = child THEN NoRoute ELSE t.pattern[n]]]

Descend(w, part) ==
  LET fit   == matchChildren(w.trie, w.at, part)
      child == Append(w.at, part)
  IN IF fit # {} THEN [at |-> w.trie.nodes[Min(fit)], trie |-> w.trie]
     ELSE [at |-> child, trie |-> NewChild(w.trie, child)]

(* insert, level by level: the node reached and the trie so far *)
Walk(t, pattern) ==
  LET walk[height \in 0..Len(pattern)] ==
        IF height = 0 THEN [at |-> << >>, trie |-> t]
        ELSE Descend(walk[height - 1], pattern[height])
  IN walk

insert(t, pattern) ==
  LET w == Walk(t, pattern)[Len(pattern)]
  IN [nodes |-> w.trie.nodes, pattern |-> [w.trie.pattern EXCEPT ![w.at] = pattern]]

addRoute(pattern) ==
  /\ Len(routes) < MaxRoutes
  /\ trie' = insert(trie, pattern)
  /\ routes' = Append(routes, pattern)

(* search: the pattern of the first node found, depth first; a child that  *)
(* finds nothing is left for the next one.                                 *)
FirstOf(t, found, children) ==   \* Variant: no way back from the first child
  IF children = {} THEN NoRoute ELSE found[t.nodes[Min(children)]]

FirstFound(t, found, children) ==
  LET hits == {i \in children : found[t.nodes[i]] # NoRoute}
  IN IF hits = {} THEN NoRoute ELSE found[t.nodes[Min(hits)]]

(* One level of search, from what is found one level deeper *)
SearchLevel(t, part, deeper) ==
  [n \in DOMAIN t.pattern |->
     IF n # << >> /\ Last(n) \in Star THEN t.pattern[n]
     ELSE FirstFound(t, deeper, matchChildren(t, n, part))]

(* What search finds in each node when so many parts are left *)
Found(t, parts) ==
  LET found[left \in 0..Len(parts)] ==
        IF left = 0 THEN t.pattern
        ELSE SearchLevel(t, parts[Len(parts) - left + 1], found[left - 1])
  IN found

search(t, parts) == Found(t, parts)[Len(parts)][<< >>]

RouterNext == \E p \in Patterns : addRoute(p)

-----------------------------------------------------------------------------
(* What a route table promises: a pattern matches a path part by part, a   *)
(* parameter any one part, a last * all the rest.                          *)
Matches(p, parts) ==
  /\ Len(p) <= Len(parts)
  /\ Len(p) = Len(parts) \/ (p # << >> /\ Last(p) \in Star)
  /\ \A i \in DOMAIN p : Fits(p[i], parts[i])

(* No route was registered behind a wildcard that stands, with the same    *)
(* parts before it, where the route has another part: insert would put it  *)
(* below the wildcard, and one of them would be lost.                      *)
Orderly ==
  \A i, j \in DOMAIN routes : \A n \in DOMAIN routes[i] :
    i < j /\ n <= Len(routes[j]) /\ routes[i][n] \in Wild
      /\ SubSeq(routes[i], 1, n - 1) = SubSeq(routes[j], 1, n - 1)
      => routes[j][n] = routes[i][n]

(* p is preferred to q: at the first part where they differ p is literal   *)
Preferred(p, q) ==
  \E n \in DOMAIN p \cap DOMAIN q :
    SubSeq(p, 1, n - 1) = SubSeq(q, 1, n - 1) /\ p[n] # q[n] /\ p[n] \notin Wild

(* In an orderly table every request reaches the handler of the most       *)
(* literal route that matches it, and only a request that no route matches *)
(* is answered with 404, whatever was registered in between.               *)
Routed ==
  Orderly =>
    \A r \in Requests :
      LET fit == {p \in ToSet(routes) : Matches(p, r)}
          n   == search(trie, r)
      IN IF fit = {} THEN n = NoRoute
         ELSE n \in fit /\ \A q \in fit \ {n} : Preferred(n, q)
=============================================================================
