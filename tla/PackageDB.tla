----------------------------- MODULE PackageDB -----------------------------
(***************************************************************************)
(* What "Install a package (with dependencies)" and "Remove a package      *)
(* (checks reverse deps)" (botpkg.c:598-601) promise of the database: an   *)
(* entry is made or changed when everything it depends on has an entry,    *)
(* and goes when nothing depends on it.                                    *)
(***************************************************************************)
EXTENDS Sequences, Functions

CONSTANTS
    Package,    \* package names
    Absent      \* the package has no entry

VARIABLE entries    \* the dependencies of each package in the database

Has(q) == entries[q] # Absent

(* q is needed by a package in the database. *)
Needed(q) == \E x \in Package : Has(x) /\ q \in Range(entries[x])

Init == entries = [q \in Package |-> Absent]

Put(q) ==
    /\ entries' = [entries EXCEPT ![q] = entries'[q]]
    /\ entries'[q] \in Seq(Package)
    /\ \A d \in Range(entries'[q]) : Has(d)

Remove(q) ==
    /\ ~Needed(q)
    /\ entries' = [entries EXCEPT ![q] = Absent]

Next == \E q \in Package : Put(q) \/ Remove(q)

Spec == Init /\ [][Next]_entries

(* Everything that a package in the database needs is in it as well. *)
Closed == \A x \in Package : Has(x) => \A d \in Range(entries[x]) : Has(d)
=============================================================================
