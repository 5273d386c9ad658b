--------------------------- MODULE ImageCatalogue ---------------------------
(***************************************************************************)
(* What the firmware catalogue promises to its publishers and readers: a   *)
(* version shows an image somebody announced for it, and shows another     *)
(* one only after somebody asked for the replacement or withdrew the first.*)
(* FirmwareCatalog implements it.                                          *)
(***************************************************************************)
CONSTANTS Versions, Images, None

VARIABLES
    image,     \* [Versions -> what the catalogue shows]
    offered,   \* [Versions -> images announced for it]
    asked      \* [Versions -> images announced as a replacement]

Init ==
    /\ image = [v \in Versions |-> None]
    /\ offered = [v \in Versions |-> {}]
    /\ asked = [v \in Versions |-> {}]

Offer(v, i) ==
    /\ offered' = [offered EXCEPT ![v] = @ \cup {i}]
    /\ asked' = asked \/ asked' = [asked EXCEPT ![v] = @ \cup {i}]
    /\ UNCHANGED image

Publish(v, i) ==
    /\ image[v] = None
    /\ i \in offered[v]
    /\ image' = [image EXCEPT ![v] = i]
    /\ UNCHANGED <<offered, asked>>

Replace(v, i) ==
    /\ image[v] # None
    /\ i \in asked[v]
    /\ image' = [image EXCEPT ![v] = i]
    /\ UNCHANGED <<offered, asked>>

Withdraw(v) ==
    /\ image' = [image EXCEPT ![v] = None]
    /\ UNCHANGED <<offered, asked>>

Next ==
    \E v \in Versions :
       \/ Withdraw(v)
       \/ \E i \in Images : Offer(v, i) \/ Publish(v, i) \/ Replace(v, i)

vars == <<image, offered, asked>>
Spec == Init /\ [][Next]_vars
=============================================================================
