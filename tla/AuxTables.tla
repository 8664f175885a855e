------------------------------ MODULE AuxTables ------------------------------
(***************************************************************************)
(* What auxiliary data promises to the tools that exchange a GTIRB file:   *)
(* tables, each a value with a portable type, attached under a name.  A    *)
(* tool puts, changes and removes tables, saves them and loads what was    *)
(* saved.  Nothing else changes a table, whichever tools it passes through *)
(* and whether or not they know its type.  As the calls are part of the    *)
(* behaviour, a save or a load cannot pass for a change that a tool made.  *)
(***************************************************************************)
CONSTANTS Tool, Name,
          Table,     \* the values with their types
          None       \* no table

VARIABLES held,   \* the tables each tool has
          disk,   \* the tables in the file
          call    \* the last call, with its arguments

Put(t, n, x) ==
    /\ call' = <<"put", t, n, x>>
    /\ held' = [held EXCEPT ![t][n] = x]
    /\ UNCHANGED disk

Clear(t) ==
    /\ call' = <<"clear", t>>
    /\ held' = [held EXCEPT ![t] = [n \in Name |-> None]]
    /\ UNCHANGED disk

Save(t) ==
    /\ call' = <<"save", t>>
    /\ disk' = held[t]
    /\ UNCHANGED held

Load(t) ==
    /\ call' = <<"load", t>>
    /\ held' = [held EXCEPT ![t] = disk]
    /\ UNCHANGED disk

Init ==
    /\ held = [t \in Tool |-> [n \in Name |-> None]]
    /\ disk \in [Name -> Table \cup {None}]
    /\ call = <<>>

Next ==
    \E t \in Tool :
        \/ \E n \in Name, x \in Table \cup {None} : Put(t, n, x)
        \/ Clear(t) \/ Save(t) \/ Load(t)

Spec == Init /\ [][Next]_<<held, disk, call>>
=============================================================================
