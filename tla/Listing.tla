------------------------------ MODULE Listing -------------------------------
(***************************************************************************)
(* Lists that are made of a set by sorting it, and of another list by      *)
(* taking some of its entries: Array.prototype.sort and filter, as the     *)
(* ring, the failure detector and the segmented log use them.              *)
(***************************************************************************)
EXTENDS Integers, Sequences, FiniteSets

\* The members of a finite set in a strict order R of it, which is a set of pairs.
Listed(S, R) ==
    [k \in 1 .. Cardinality(S) |->
        CHOOSE x \in S : Cardinality({y \in S : <<y, x>> \in R}) = k - 1]

\* The entries of a list at some of its positions, in an order of these.
EntriesAt(list, positions, R) ==
    LET order == Listed(positions, R) IN [k \in DOMAIN order |-> list[order[k]]]

Upwards(positions) == {p \in positions \X positions : p[1] < p[2]}
=============================================================================
