----------------------------- MODULE MCFamilies -----------------------------
(***************************************************************************)
(* An instance of Families for TLC: two Admins, a teacher at one center,   *)
(* another at the same or at the other, and two families.                  *)
(***************************************************************************)
EXTENDS Families, TLC

CONSTANTS a1, a2, t1, t2, p1, p2, s1, s2, c1, c2

MCUsers == {a1, a2, t1, t2, p1, p2}
MCStudents == {s1, s2}
MCCenters == {c1, c2}
MCListed == {p1, p2}

Account(role, center) == [exists |-> TRUE, role |-> role, center |-> center, isActive |-> TRUE]

Staff(c) ==
  [u \in MCUsers |->
     CASE u \in {a1, a2} -> Account("Admin", NoCenter)
       [] u = t1 -> Account("Teacher", c1)
       [] u = t2 -> Account("Teacher", c)
       [] OTHER -> NoUser]

\* One family; the second is still to be registered.
OneFamily(c) ==
  [user |-> [Staff(c) EXCEPT ![p1] = Account("Parent", c1)],
   students |-> {s1}, teacher |-> (s1 :> t1 @@ s2 :> Nobody),
   link |-> {<<p1, s1>>}, mail |-> {<<p1, s1>>}, deleted |-> {}]

\* The first parent has a child with each teacher, or both with the first one.
TwoFamilies(c) ==
  [user |-> [Staff(c) EXCEPT ![p1] = Account("Parent", c1), ![p2] = Account("Parent", c1)],
   students |-> MCStudents, teacher |-> (s1 :> t1 @@ s2 :> IF c = c1 THEN t2 ELSE t1),
   link |-> {<<p1, s1>>, <<p1, s2>>, <<p2, s2>>}, mail |-> {<<p1, s1>>, <<p2, s2>>},
   deleted |-> {}]

\* The first parent's only child was deleted, the second student has no teacher.
FamilyLeft(c) ==
  [user |-> [Staff(c) EXCEPT ![p1] = [Account("Parent", c1) EXCEPT !.isActive = FALSE]],
   students |-> {s2}, teacher |-> (s1 :> Nobody @@ s2 :> Nobody),
   link |-> {}, mail |-> {<<p2, s2>>}, deleted |-> {}]

MCStart == UNION {{OneFamily(c), TwoFamilies(c), FamilyLeft(c)} : c \in MCCenters}

Symmetry == Permutations(Requests)

=============================================================================
