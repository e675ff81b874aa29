------------------------------ MODULE Libraries -------------------------------
(***************************************************************************)
(* The sequential libraries of the repository side by side: each is a      *)
(* machine of its own, and a behaviour is one of a single library.         *)
(***************************************************************************)
EXTENDS LruCache, OrmSession, OrmEngine, GeeRouter, GeeContext

VARIABLE library

vars == <<library, lruVars, sessionVars, engineVars, routerVars, contextVars>>

Init ==
  /\ library \in {"lru", "session", "engine", "router", "context"}
  /\ LruInit /\ SessionInit /\ EngineInit /\ RouterInit /\ ContextInit
  /\ library # "engine" => db = [main |-> NoTable, tmp |-> NoTable]

Next ==
  /\ UNCHANGED library
  /\ \/ /\ library = "lru" /\ LruNext
        /\ UNCHANGED <<sessionVars, engineVars, routerVars, contextVars>>
     \/ /\ library = "session" /\ SessionNext
        /\ UNCHANGED <<lruVars, engineVars, routerVars, contextVars>>
     \/ /\ library = "engine" /\ EngineNext
        /\ UNCHANGED <<lruVars, sessionVars, routerVars, contextVars>>
     \/ /\ library = "router" /\ RouterNext
        /\ UNCHANGED <<lruVars, sessionVars, engineVars, contextVars>>
     \/ /\ library = "context" /\ ContextNext
        /\ UNCHANGED <<lruVars, sessionVars, engineVars, routerVars>>

Spec == Init /\ [][Next]_vars

(* The types of all the libraries' variables. *)
TypesOK ==
  /\ LruTypeOK /\ SessionTypeOK /\ EngineTypeOK /\ RouterTypeOK /\ ContextTypeOK
=============================================================================
