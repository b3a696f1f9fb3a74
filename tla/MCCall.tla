------------------------------- MODULE MCCall -------------------------------
(* Small instances of Call and CallSerial. *)
EXTENDS CallSerial, TLC
CONSTANTS u1, u2, u3, r12, r13, g

\* Two users with one single room.
PairRooms == {r12}
PairMembers == r12 :> {u1, u2}
PairDenies == [u \in {u1, u2} |-> {}]

\* Three users: u1 has a single room with each of the others, u3 takes no
\* calls from u1.
StarRooms == {r12, r13}
StarMembers == r12 :> {u1, u2} @@ r13 :> {u1, u3}
StarDenies == u1 :> {} @@ u2 :> {} @@ u3 :> {u1}

\* Two users with a single room and a group, interchangeable.
DuoRooms == {r12, g}
DuoMembers == [r \in {r12, g} |-> {u1, u2}]
DuoSymmetry == Permutations(Slots) \cup Permutations({u1, u2})

CallSymmetry == Permutations(Calls)
=============================================================================
