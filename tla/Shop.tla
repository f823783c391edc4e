-------------------------------- MODULE Shop --------------------------------
(***************************************************************************)
(* What checkout promises about inventory and orders: an order is placed   *)
(* in one step, with all the units it asks for and under a key no other    *)
(* order has, or not at all.  Locks, connections, slots, caches and        *)
(* failures do not appear.                                                 *)
(***************************************************************************)
EXTENDS Naturals

CONSTANTS Items, Customers, Keys, None, InitStock, MaxUnits

VARIABLES stock, ledger

Order == [id : Customers, key : Keys \cup {None}, bill : [Items -> 0 .. MaxUnits]]

Init == stock = InitStock /\ ledger = {}

Place(o) ==
    /\ \A p \in ledger : p.id # o.id
    /\ o.key # None => \A p \in ledger : p.key # o.key
    /\ \A i \in Items : o.bill[i] <= stock[i]
    /\ stock' = [i \in Items |-> stock[i] - o.bill[i]]
    /\ ledger' = ledger \cup {o}

Next == \E o \in Order : Place(o)

Spec == Init /\ [][Next]_<<stock, ledger>>
=============================================================================
