----------------------------- MODULE SpareShelf -----------------------------
(***************************************************************************)
(* The mnt_spare_parts rows as the maintenance desk and the bridge to      *)
(* procurement both have them.                                             *)
(***************************************************************************)
EXTENDS Integers

CONSTANTS
    Spares,         \* mnt_spare_parts rows
    MaxStock        \* bound: pieces of a part

VARIABLES
    stock,          \* stock_qty of a part
    reserved        \* reserved_qty of a part

\* available_qty: what is on the shelf and promised to nobody.
Available(s) == stock[s] - reserved[s]

=============================================================================
