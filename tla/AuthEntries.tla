------------------------------ MODULE AuthEntries ------------------------------
(***************************************************************************)
(* The contents of mcp-auth.json (src/src/auth/store.rs) and what each     *)
(* operation on it reads and changes.  Credentials are opaque.             *)
(***************************************************************************)
CONSTANTS Tasks,    \* the operations
          Request,  \* Tasks -> [kind, server, url, creds]
          Servers,
          Urls,
          Creds,
          None

Kinds == {"load", "save", "remove"}
Entry == [url : Urls, creds : Creds]
Maps  == [Servers -> Entry \cup {None}]

ASSUME RequestsTyped ==
  /\ Request \in [Tasks -> [kind : Kinds, server : Servers, url : Urls, creds : Creds]]
  /\ None \notin Creds
  /\ None \notin Entry

Kind(t)   == Request[t].kind
Server(t) == Request[t].server

NoTokens == [s \in Servers |-> None]

\* load_entry: credentials obtained for another URL do not count.
Lookup(map, t) ==
  IF map[Server(t)] # None /\ map[Server(t)].url = Request[t].url
    THEN map[Server(t)].creds
    ELSE None

\* The map an operation leaves, ...
Changed(map, t) ==
  CASE Kind(t) = "load"   -> map
    [] Kind(t) = "save"   -> [map EXCEPT ![Server(t)] = [url |-> Request[t].url,
                                                         creds |-> Request[t].creds]]
    [] Kind(t) = "remove" -> [map EXCEPT ![Server(t)] = None]

\* ... and what it returns.
Found(map, t) ==
  CASE Kind(t) = "load"   -> Lookup(map, t)
    [] Kind(t) = "save"   -> "saved"
    [] Kind(t) = "remove" -> IF map[Server(t)] # None THEN "removed" ELSE "nothing"
=============================================================================
