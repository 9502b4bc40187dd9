------------------------------ MODULE KeyIndex ------------------------------
(***************************************************************************)
(* What hash.h offers: a table keeps, for every key, the nodes with that   *)
(* key in the order they were inserted; a search returns the first one.    *)
(* Hash.tla is shown to implement this module.                             *)
(***************************************************************************)
EXTENDS SequencesExt

CONSTANTS
  Tables,      (* the tables                                               *)
  Keys,        (* what nodes are searched by                               *)
  Null,        (* no node                                                  *)
  KeyOf        (* the key of every node                                    *)

VARIABLES
  index,       (* for every table and key the nodes, oldest first          *)
  call         (* the last call: [fn, table, arg, ret]                     *)

NoCall == [fn |-> "none", table |-> Null, arg |-> Null, ret |-> Null]

Nothing == [k \in Keys |-> <<>>]

Init ==
  /\ index = [t \in Tables |-> Nothing]
  /\ call = NoCall

Holds(t, x) == \E i \in DOMAIN index[t][KeyOf[x]] : index[t][KeyOf[x]][i] = x

Insert(c) ==
  /\ c.fn = "insert"
  /\ \A t \in Tables : ~Holds(t, c.arg)
  /\ index' = [index EXCEPT ![c.table][KeyOf[c.arg]] = Append(@, c.arg)]

Delete(c) ==
  /\ c.fn = "delete"
  /\ LET k == KeyOf[c.arg]
     IN  \E i \in DOMAIN index[c.table][k] :
           /\ index[c.table][k][i] = c.arg
           /\ index' = [index EXCEPT ![c.table][k] = RemoveAt(@, i)]

Search(c) ==
  /\ c.fn = "search"
  /\ LET found == index[c.table][c.arg]
     IN  c.ret = IF found = <<>> THEN Null ELSE Head(found)
  /\ UNCHANGED index

(* A search through the whole table returns some node that passes the      *)
(* test, here that its key is one of a set, if there is any.               *)
SearchAll(c) ==
  /\ c.fn = "search_all"
  /\ IF \E k \in c.arg : index[c.table][k] # <<>>
     THEN \E k \in c.arg : \E i \in DOMAIN index[c.table][k] : c.ret = index[c.table][k][i]
     ELSE c.ret = Null
  /\ UNCHANGED index

Empty(c) ==
  /\ c.fn \in {"create", "clear", "free"}
  /\ index' = [index EXCEPT ![c.table] = Nothing]

(* Everything moves over, behind what is there.                            *)
Migrate(c) ==
  /\ c.fn = "migrate"
  /\ index' = [index EXCEPT ![c.table] = Nothing,
                            ![c.arg] = [k \in Keys |-> @[k] \o index[c.table][k]]]

Perform(c) ==
  Insert(c) \/ Delete(c) \/ Search(c) \/ SearchAll(c) \/ Empty(c) \/ Migrate(c)

Next == Perform(call')

Spec == Init /\ [][Next]_<<index, call>>
=============================================================================
