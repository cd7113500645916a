------------------------------ MODULE PhotoSets ------------------------------
(***************************************************************************)
(* What the face service promises about the photos of each student,        *)
(* whatever its folders and its index go through: a set is replaced as a   *)
(* whole, by photos of one upload; faces are matched against a set that    *)
(* was there when the index took it; only an erasure takes photos out of   *)
(* a set; and nothing is lost otherwise, except that a restart may come up *)
(* without a set.  FaceEnrollment is shown to implement it.                *)
(***************************************************************************)
EXTENDS Naturals

CONSTANT Students

VARIABLES
  held,      \* held[s]: the photos of s, as pairs <<upload, name>>
  encoded    \* encoded[s]: the photos the encoding of s was made from

vars == <<held, encoded>>

OfOneUpload(photos) == \A p, q \in photos : p[1] = q[1]

Init == held = [s \in Students |-> {}] /\ encoded = held

Replace(s) ==
  /\ held'[s] # {} /\ OfOneUpload(held'[s])
  /\ held' = [held EXCEPT ![s] = held'[s]]
  /\ UNCHANGED encoded

Encode(s) ==
  /\ held[s] # {}
  /\ encoded' = [encoded EXCEPT ![s] = held[s]]
  /\ UNCHANGED held

Erase(s) ==
  /\ held'[s] \subseteq held[s]
  /\ held' = [held EXCEPT ![s] = held'[s]]
  /\ UNCHANGED encoded

Forget(s) ==
  /\ held[s] = {}
  /\ encoded' = [encoded EXCEPT ![s] = {}]
  /\ UNCHANGED held

Reload == encoded' = held /\ UNCHANGED held

Restart ==
  /\ held' \in [Students -> {held[s] : s \in Students} \cup {{}}]
  /\ \A s \in Students : held'[s] \in {held[s], {}}
  /\ encoded' = held'

Next ==
  \/ \E s \in Students : Replace(s) \/ Encode(s) \/ Erase(s) \/ Forget(s)
  \/ Reload \/ Restart

Spec == Init /\ [][Next]_vars

=============================================================================
