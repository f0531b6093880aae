--------------------------- MODULE MCReservations ---------------------------
(* TLC instances of Reservations: files, and symbols with a qualified name. *)
EXTENDS Reservations, TLC

CONSTANTS s1, s2, a1, a2, f, g, foo, mfoo, i1, i2, i3

Files   == f :> Nil @@ g :> Nil
Symbols == foo :> mfoo @@ mfoo :> mfoo

IdSymmetry == Permutations({i1, i2, i3}) \cup Permutations({a1, a2}) \cup Permutations({s1, s2})
=============================================================================
