----------------------------- MODULE DropOldest -----------------------------
(***************************************************************************)
(* What one socket of IpcBridge promises the producers of its packets: a   *)
(* channel that never blocks them and that loses the oldest packets when   *)
(* the reader is slow.  Packets are numbered in the order in which they    *)
(* are accepted.  They leave in that order and at most once; one that      *)
(* Bound - 1 newer ones have not followed is lost only when it is its turn *)
(* and the write fails.                                                    *)
(*                                                                         *)
(* Threads, descriptors and connections are not part of the promise; an    *)
(* IpcBridge socket implements it (Implements in module IpcBridge).        *)
(***************************************************************************)
EXTENDS Integers

CONSTANT Bound  \* the bound of the queue

VARIABLES
    accepted, \* packets accepted so far
    held,     \* those that have neither left nor been lost
    left      \* those that were written, as a whole or at least their head

vars == <<accepted, held, left>>

Init == accepted = 0 /\ held = {} /\ left = {}

Recent == (accepted - Bound + 2) .. accepted

(* A packet is accepted, and room is made for it.                          *)
Offer ==
    /\ accepted' = accepted + 1
    /\ \E kept \in SUBSET held :
         /\ held \cap Recent \subseteq kept
         /\ held' = kept \cup {accepted + 1}
    /\ UNCHANGED left

Oldest(p) == p \in held /\ \A q \in held : p <= q

Deliver(p) ==
    /\ Oldest(p)
    /\ held' = held \ {p}
    /\ left' = left \cup {p}
    /\ UNCHANGED accepted

(* The write of a packet fails before anything is written.                 *)
Lose(p) ==
    /\ Oldest(p)
    /\ held' = held \ {p}
    /\ UNCHANGED <<accepted, left>>

Next == Offer \/ \E p \in held : Deliver(p) \/ Lose(p)

Spec == Init /\ [][Next]_vars
=============================================================================
