--------------------------- MODULE FamiliesProofs ---------------------------
(***************************************************************************)
(* Proofs about Families, for any users, students, centers and requests    *)
(* and any well-formed database to start from.                             *)
(*                                                                         *)
(* The first part says what each kind of transaction does to the           *)
(* database, whatever it is; the invariants rest on that.  What is proved  *)
(* of a request that nobody has overtaken needs one more invariant: what   *)
(* it read is still so (Current).                                          *)
(***************************************************************************)
EXTENDS Families, FiniteSetTheorems, TLAPS

----------------------------------------------------------------------------
(* Types *)

Place == Centers \cup {NoCenter}

Registering ==
  [op : {"register"}, u : Users, role : Roles, center : Place, kids : SUBSET Students]

Updating ==
  [op : {"update"}, u : Users, role : Roles, center : Place,
   was : [role : Roles, center : Place], scope : Place,
   given : BOOLEAN, kids : SUBSET Students,
   mailed : BOOLEAN, lists : SUBSET Students,
   action : {"none", "move", "transfer"}, next : Users \cup {Nobody}]

DeletingUser == [op : {"delete_user"}, u : Users]

Saving ==
  [op : {"create", "edit"}, s : Students, moved : BOOLEAN,
   teacher : Users \cup {Nobody}, mail : SUBSET Users]

DeletingStudent ==
  [op : {"delete_student", "deactivate"}, s : Students, parents : SUBSET Users]

LEMMA RequestKinds ==
  Request = [op : {"none"}] \cup Registering \cup Updating \cup DeletingUser
              \cup Saving \cup DeletingStudent
BY DEF Request, Registering, Updating, DeletingUser, Saving, DeletingStudent, Place

LEMMA KindOf ==
  ASSUME NEW q \in Request
  PROVE  /\ q.op \in {"none", "register", "update", "delete_user", "create", "edit",
                      "delete_student", "deactivate"}
         /\ q.op = "none" => q = Idle
         /\ q.op = "register" => q \in Registering
         /\ q.op = "update" => q \in Updating
         /\ q.op = "delete_user" => q \in DeletingUser
         /\ q.op \in {"create", "edit"} => q \in Saving
         /\ q.op \in {"delete_student", "deactivate"} => q \in DeletingStudent
<1>1. CASE q \in [op : {"none"}]
  BY <1>1 DEF Idle
<1>2. CASE q \in Registering
  BY <1>2 DEF Registering
<1>3. CASE q \in Updating
  BY <1>3 DEF Updating
<1>4. CASE q \in DeletingUser
  BY <1>4 DEF DeletingUser
<1>5. CASE q \in Saving
  BY <1>5 DEF Saving
<1>6. CASE q \in DeletingStudent
  BY <1>6 DEF DeletingStudent
<1> QED
  BY <1>1, <1>2, <1>3, <1>4, <1>5, <1>6, RequestKinds

LEMMA IdleIsRequest == Idle \in Request
BY RequestKinds DEF Idle

LEMMA DatabaseFields ==
  ASSUME NEW d \in Database
  PROVE  /\ d.user \in [Users -> User]
         /\ d.students \subseteq Students
         /\ d.teacher \in [Students -> Users \cup {Nobody}]
         /\ d.link \subseteq Users \X Students
         /\ d.mail \subseteq Users \X Students
         /\ d.deleted \subseteq Users \cup Students
BY DEF Database

LEMMA UserFields ==
  ASSUME NEW d \in Database, NEW u \in Users
  PROVE  /\ d.user[u] \in User
         /\ d.user[u].exists \in BOOLEAN
         /\ d.user[u].isActive \in BOOLEAN
         /\ d.user[u].role \in Roles
         /\ d.user[u].center \in Place
BY DatabaseFields DEF User, Place

(* Databases that differ from d in a few fields. *)

LEMMA WithUsers ==
  ASSUME NEW d \in Database, NEW users \in [Users -> User]
  PROVE  LET e == [d EXCEPT !.user = users] IN
         /\ e \in Database
         /\ e.user = users /\ e.students = d.students /\ e.teacher = d.teacher
         /\ e.link = d.link /\ e.mail = d.mail /\ e.deleted = d.deleted
BY DEF Database

LEMMA WithTeachers ==
  ASSUME NEW d \in Database, NEW teachers \in [Students -> Users \cup {Nobody}]
  PROVE  LET e == [d EXCEPT !.teacher = teachers] IN
         /\ e \in Database
         /\ e.user = d.user /\ e.students = d.students /\ e.teacher = teachers
         /\ e.link = d.link /\ e.mail = d.mail /\ e.deleted = d.deleted
BY DEF Database

LEMMA WithLinks ==
  ASSUME NEW d \in Database, NEW links \in SUBSET (Users \X Students)
  PROVE  LET e == [d EXCEPT !.link = links] IN
         /\ e \in Database
         /\ e.user = d.user /\ e.students = d.students /\ e.teacher = d.teacher
         /\ e.link = links /\ e.mail = d.mail /\ e.deleted = d.deleted
BY DEF Database

LEMMA WithMail ==
  ASSUME NEW d \in Database, NEW mails \in SUBSET (Users \X Students)
  PROVE  LET e == [d EXCEPT !.mail = mails] IN
         /\ e \in Database
         /\ e.user = d.user /\ e.students = d.students /\ e.teacher = d.teacher
         /\ e.link = d.link /\ e.mail = mails /\ e.deleted = d.deleted
BY DEF Database

LEMMA WithStudents ==
  ASSUME NEW d \in Database, NEW rows \in SUBSET Students
  PROVE  LET e == [d EXCEPT !.students = rows] IN
         /\ e \in Database
         /\ e.user = d.user /\ e.students = rows /\ e.teacher = d.teacher
         /\ e.link = d.link /\ e.mail = d.mail /\ e.deleted = d.deleted
BY DEF Database

LEMMA WithDeleted ==
  ASSUME NEW d \in Database, NEW ids \in SUBSET (Users \cup Students)
  PROVE  LET e == [d EXCEPT !.deleted = ids] IN
         /\ e \in Database
         /\ e.user = d.user /\ e.students = d.students /\ e.teacher = d.teacher
         /\ e.link = d.link /\ e.mail = d.mail /\ e.deleted = ids
BY DEF Database

----------------------------------------------------------------------------
(* What the transactions do *)

LEMMA NoUserIsUser == NoUser \in User
BY DEF NoUser, User, Roles

LEMMA CenterOfSame ==
  ASSUME NEW d, NEW e, d.user = e.user, d.teacher = e.teacher, NEW s
  PROVE  CenterOf(d, s) = CenterOf(e, s)
BY DEF CenterOf

LEMMA RegisteredIs ==
  ASSUME db \in Database, NEW q \in Registering, NEW e \in Registered(q)
  PROVE  /\ e \in Database
         /\ ~db.user[q.u].exists
         /\ q.kids \subseteq db.students
         /\ e.students = db.students /\ e.teacher = db.teacher
         /\ e.user = [db.user EXCEPT ![q.u] = [exists |-> TRUE, role |-> q.role,
                                               center |-> q.center, isActive |-> TRUE]]
         /\ \E found \in SUBSET Students :
              /\ e.link = db.link \cup ({q.u} \X (q.kids \cup found))
              /\ \A s \in found : /\ s \in db.students /\ q.center # NoCenter
                                  /\ CenterOf(e, s) = q.center
         /\ q.role = "Parent" => Kids(e, q.u) # {}
<1> DEFINE row == [exists |-> TRUE, role |-> q.role, center |-> q.center, isActive |-> TRUE]
           made == [db EXCEPT !.user[q.u] = row, !.link = @ \cup ({q.u} \X q.kids)]
           found == IF q.role = "Parent" THEN Matching(made, q.u, q.center) ELSE {}
           after == [made EXCEPT !.link = @ \cup ({q.u} \X found)]
<1>1. /\ e = after /\ ~db.user[q.u].exists /\ q.kids \subseteq db.students
      /\ q.role = "Parent" => Kids(e, q.u) # {}
  BY DEF Registered
<1>2. /\ q.u \in Users /\ q.kids \in SUBSET Students /\ row \in User
  BY DEF Registering, User, Place
<1>3. /\ [db.user EXCEPT ![q.u] = row] \in [Users -> User]
      /\ db.link \cup ({q.u} \X q.kids) \in SUBSET (Users \X Students)
  BY <1>2, DatabaseFields
<1>4. /\ made \in Database
      /\ made.user = [db.user EXCEPT ![q.u] = row] /\ made.students = db.students
      /\ made.teacher = db.teacher /\ made.link = db.link \cup ({q.u} \X q.kids)
  <2>1. made = [[db EXCEPT !.user = [db.user EXCEPT ![q.u] = row]]
                   EXCEPT !.link = db.link \cup ({q.u} \X q.kids)]
    BY DEF Database
  <2> DEFINE w == [db EXCEPT !.user = [db.user EXCEPT ![q.u] = row]]
  <2>2. /\ w \in Database /\ w.user = [db.user EXCEPT ![q.u] = row]
        /\ w.students = db.students /\ w.teacher = db.teacher /\ w.link = db.link
    BY <1>3, WithUsers
  <2> HIDE DEF w
  <2>3. made = [w EXCEPT !.link = db.link \cup ({q.u} \X q.kids)]
    BY <2>1 DEF w
  <2> QED
    BY <2>2, <2>3, <1>3, WithLinks
<1> HIDE DEF made
<1>5. found \in SUBSET Students
  BY <1>4, DatabaseFields DEF Matching
<1>6. \A s \in found : /\ s \in db.students /\ q.center # NoCenter
                       /\ CenterOf(made, s) = q.center
  BY <1>4 DEF Matching
<1> HIDE DEF found
<1>7. made.link \cup ({q.u} \X found) \in SUBSET (Users \X Students)
  BY <1>2, <1>4, <1>5, DatabaseFields
<1>8. /\ after \in Database /\ after.user = made.user /\ after.students = made.students
      /\ after.teacher = made.teacher /\ after.link = made.link \cup ({q.u} \X found)
  <2>1. after = [made EXCEPT !.link = made.link \cup ({q.u} \X found)]
    BY <1>4 DEF Database
  <2> QED
    BY <2>1, <1>4, <1>7, WithLinks
<1>9. after.link = db.link \cup ({q.u} \X (q.kids \cup found))
  BY <1>4, <1>8
<1> HIDE DEF after
<1>10. \A s \in found : CenterOf(after, s) = q.center
  BY <1>6, <1>8, CenterOfSame
<1> QED
  BY <1>1, <1>4, <1>5, <1>6, <1>8, <1>9, <1>10

Dropped(q) ==
  IF q.given THEN {s \in Students : q.scope = NoCenter \/ CenterOf(db, s) = q.scope}
  ELSE IF q.was.role = "Parent" /\ q.role # "Parent" THEN Students ELSE {}

RowOf(q) ==
  [db.user[q.u] EXCEPT !.role = q.role,
                       !.center = IF Moved(q) THEN q.center ELSE @,
                       !.isActive = @ \/ q.kids # {}]

LEMMA RowIs ==
  ASSUME db \in Database, NEW q \in Updating
  PROVE  /\ RowOf(q) \in User
         /\ RowOf(q).exists = db.user[q.u].exists
         /\ RowOf(q).role = q.role
         /\ RowOf(q).center = IF Moved(q) THEN q.center ELSE db.user[q.u].center
         /\ RowOf(q).isActive = (db.user[q.u].isActive \/ q.kids # {})
<1>1. /\ q.u \in Users /\ q.role \in Roles /\ q.center \in Place
  BY DEF Updating
<1>2. db.user[q.u] \in User
  BY <1>1, UserFields
<1> QED
  BY <1>1, <1>2 DEF RowOf, User, Place

LEMMA RewrittenIs ==
  ASSUME db \in Database, NEW q \in Updating
  PROVE  /\ Rewritten(q) \in Database
         /\ Rewritten(q).user = [db.user EXCEPT ![q.u] = RowOf(q)]
         /\ Rewritten(q).students = db.students
         /\ Rewritten(q).teacher = db.teacher
         /\ Rewritten(q).link = (db.link \ ({q.u} \X Dropped(q))) \cup ({q.u} \X q.kids)
<1>1. /\ q.u \in Users /\ q.kids \subseteq Students /\ q.lists \subseteq Students
  BY DEF Updating
<1> DEFINE users == [db.user EXCEPT ![q.u] = RowOf(q)]
           links == (db.link \ ({q.u} \X Dropped(q))) \cup ({q.u} \X q.kids)
           mails == IF q.mailed THEN (db.mail \ ({q.u} \X Students)) \cup ({q.u} \X q.lists)
                    ELSE db.mail
<1>2. users \in [Users -> User]
  BY <1>1, RowIs, DatabaseFields
<1>3. links \in SUBSET (Users \X Students)
  BY <1>1, DatabaseFields
<1>4. mails \in SUBSET (Users \X Students)
  BY <1>1, DatabaseFields
<1>5. Rewritten(q) = [db EXCEPT !.user = users, !.link = links, !.mail = mails]
  <2>2. Rewritten(q) =
          [db EXCEPT !.user[q.u] = RowOf(q), !.link = links, !.mail = mails]
    BY DEF Rewritten, RowOf, Dropped, Database
  <2> HIDE DEF links, mails
  <2> QED
    BY <2>2 DEF Database
<1> HIDE DEF users, links, mails
<1>6. [db EXCEPT !.user = users, !.link = links, !.mail = mails]
        = [[[db EXCEPT !.user = users] EXCEPT !.link = links] EXCEPT !.mail = mails]
  BY DEF Database
<1>7. /\ Rewritten(q) \in Database
      /\ Rewritten(q).user = users /\ Rewritten(q).students = db.students
      /\ Rewritten(q).teacher = db.teacher /\ Rewritten(q).link = links
  <2> DEFINE w1 == [db EXCEPT !.user = users]
             w2 == [w1 EXCEPT !.link = links]
  <2>1. /\ w1 \in Database /\ w1.user = users /\ w1.students = db.students
        /\ w1.teacher = db.teacher
    BY <1>2, WithUsers
  <2> HIDE DEF w1
  <2>2. /\ w2 \in Database /\ w2.user = users /\ w2.students = db.students
        /\ w2.teacher = db.teacher /\ w2.link = links
    BY <1>3, <2>1, WithLinks
  <2> HIDE DEF w2
  <2>3. Rewritten(q) = [w2 EXCEPT !.mail = mails]
    BY <1>5, <1>6 DEF w1, w2
  <2> QED
    BY <1>4, <2>2, <2>3, WithMail
<1> QED
  BY <1>7 DEF users, links

MovesOn(q) == Moved(q) /\ q.was.role = "Teacher" /\ q.role = "Teacher"

LEMMA EnrolledIs ==
  ASSUME NEW d \in Database, NEW t
  PROVE  \A s : s \in Enrolled(d, t) <=> s \in d.students /\ d.teacher[s] = t
BY DatabaseFields DEF Enrolled

LEMMA TeacherMovedIs ==
  ASSUME NEW q \in Updating, NEW d \in Database, NEW m \in TeacherMoved(q, d)
  PROVE  /\ m \in Database /\ m.students = d.students /\ m.link = d.link
         /\ \/ m = d /\ (MovesOn(q) => Enrolled(d, q.u) = {})
            \/ /\ MovesOn(q)
               /\ q.next \in Users /\ Is(d, q.next, "Teacher") /\ q.next # q.u
               /\ d.user[q.next].center = q.was.center
               /\ m.user = d.user
               /\ m.teacher = [s \in Students |-> IF s \in Enrolled(d, q.u) THEN q.next
                                                   ELSE d.teacher[s]]
            \/ /\ MovesOn(q)
               /\ m.teacher = d.teacher
               /\ m.user = [p \in Users |-> IF p \in Families(d, q.u)
                                              THEN [d.user[p] EXCEPT !.center = q.center]
                                              ELSE d.user[p]]
               /\ \A p \in Families(d, q.u) : Kids(d, p) \subseteq Enrolled(d, q.u)
<1> DEFINE handed == [s \in Students |-> IF s \in Enrolled(d, q.u) THEN q.next
                                          ELSE d.teacher[s]]
           taken == [p \in Users |-> IF p \in Families(d, q.u)
                                       THEN [d.user[p] EXCEPT !.center = q.center]
                                       ELSE d.user[p]]
<1>1. CASE ~MovesOn(q) \/ Enrolled(d, q.u) = {}
  BY <1>1 DEF TeacherMoved, MovesOn
<1>2. CASE MovesOn(q) /\ Enrolled(d, q.u) # {} /\ q.action = "none"
  BY <1>2 DEF TeacherMoved, MovesOn
<1>3. CASE MovesOn(q) /\ Enrolled(d, q.u) # {} /\ q.action = "transfer"
  <2>1. PICK t \in Active(d, "Teacher") \ {q.u} :
           /\ t = q.next /\ d.user[t].center = q.was.center
           /\ m = [d EXCEPT !.teacher = handed]
    BY <1>3 DEF TeacherMoved, MovesOn
  <2>2. q.next \in Users /\ Is(d, q.next, "Teacher") /\ q.next # q.u
    BY <2>1 DEF Active
  <2>3. handed \in [Students -> Users \cup {Nobody}]
    BY <2>2, DatabaseFields
  <2> QED
    BY <1>3, <2>1, <2>2, <2>3, WithTeachers
<1>4. CASE MovesOn(q) /\ Enrolled(d, q.u) # {} /\ q.action = "move"
  <2>1. /\ m = [d EXCEPT !.user = taken]
        /\ \A p \in Families(d, q.u) : Kids(d, p) \subseteq Enrolled(d, q.u)
    BY <1>4 DEF TeacherMoved, MovesOn
  <2>2. taken \in [Users -> User]
    <3> SUFFICES ASSUME NEW p \in Users
                 PROVE  (IF p \in Families(d, q.u)
                          THEN [d.user[p] EXCEPT !.center = q.center] ELSE d.user[p]) \in User
      OBVIOUS
    <3>1. q.center \in Place
      BY DEF Updating
    <3> QED
      BY <3>1, UserFields DEF User, Place
  <2> QED
    BY <1>4, <2>1, <2>2, WithUsers
<1> QED
  BY <1>1, <1>2, <1>3, <1>4 DEF Updating

LEMMA LinkedByEmailIs ==
  ASSUME NEW q \in Updating, NEW d \in Database
  PROVE  LET e == LinkedByEmail(q, d) IN
         /\ e \in Database /\ e.user = d.user /\ e.students = d.students
         /\ e.teacher = d.teacher
         /\ \E found \in SUBSET Students :
              /\ e.link = d.link \cup ({q.u} \X found)
              /\ \A s \in found : /\ q.role = "Parent" /\ q.center # NoCenter
                                  /\ s \in d.students /\ CenterOf(d, s) = q.center
<1> DEFINE e == LinkedByEmail(q, d)
           found == Matching(d, q.u, q.center)
<1>1. CASE e = d
  <2>1. d.link = d.link \cup ({q.u} \X {})
    BY DatabaseFields
  <2> HIDE DEF e
  <2>2. {} \in SUBSET Students /\ \A s \in {} : FALSE
    OBVIOUS
  <2> QED
    BY <1>1, <2>1, <2>2 DEF e
<1>2. CASE e # d
  <2>1. q.role = "Parent" /\ e = [d EXCEPT !.link = @ \cup ({q.u} \X found)]
    BY <1>2 DEF LinkedByEmail
  <2>2. found \subseteq Students /\ q.u \in Users
    BY DatabaseFields DEF Matching, Updating
  <2>3. \A s \in found : /\ q.center # NoCenter /\ s \in d.students
                         /\ CenterOf(d, s) = q.center
    BY DEF Matching
  <2> HIDE DEF found
  <2>4. d.link \cup ({q.u} \X found) \in SUBSET (Users \X Students)
    BY <2>2, DatabaseFields
  <2>5. e = [d EXCEPT !.link = d.link \cup ({q.u} \X found)]
    BY <2>1 DEF Database
  <2> HIDE DEF e
  <2>6. /\ e \in Database /\ e.user = d.user /\ e.students = d.students
        /\ e.teacher = d.teacher /\ e.link = d.link \cup ({q.u} \X found)
    BY <2>4, <2>5, WithLinks
  <2> QED
    BY <2>1, <2>2, <2>3, <2>6 DEF e
<1> QED
  BY <1>1, <1>2

\* The roles, links and the rest that stays of an update.
LEMMA UpdatedIs ==
  ASSUME db \in Database, NEW q \in Updating, NEW e \in Updated(q)
  PROVE  /\ e \in Database /\ e.students = db.students
         /\ db.user[q.u].exists /\ q.kids \subseteq db.students
         /\ LinksAreRight(q, e)
         /\ \A u \in Users : /\ e.user[u].exists = db.user[u].exists
                             /\ u # q.u => /\ e.user[u].role = db.user[u].role
                                           /\ e.user[u].isActive = db.user[u].isActive
         /\ e.user[q.u].role = q.role
         /\ e.user[q.u].isActive = (db.user[q.u].isActive \/ q.kids # {})
         /\ \E found \in SUBSET Students :
              /\ e.link = Rewritten(q).link \cup ({q.u} \X found)
              /\ found \subseteq db.students
         /\ \A s \in Students : \/ e.teacher[s] = db.teacher[s]
                                \/ e.teacher[s] \in Users /\ db.user[e.teacher[s]].exists
<1> DEFINE d == Rewritten(q)
<1>1. PICK m \in TeacherMoved(q, d) :
         /\ e = LinkedByEmail(q, m)
         /\ db.user[q.u].exists /\ q.kids \subseteq db.students
         /\ LinksAreRight(q, e)
  BY DEF Updated
<1>2. /\ d \in Database /\ d.user = [db.user EXCEPT ![q.u] = RowOf(q)]
      /\ d.students = db.students /\ d.teacher = db.teacher
  BY RewrittenIs
<1>3. q.u \in Users
  BY DEF Updating
<1>4. \A u \in Users : /\ d.user[u].exists = db.user[u].exists
                       /\ u # q.u => d.user[u] = db.user[u]
  BY <1>2, <1>3, RowIs, DatabaseFields
<1>5. /\ d.user[q.u].role = q.role
      /\ d.user[q.u].isActive = (db.user[q.u].isActive \/ q.kids # {})
  BY <1>2, <1>3, RowIs, DatabaseFields
<1> HIDE DEF d
<1>6. /\ m \in Database /\ m.students = d.students /\ m.link = d.link
  BY <1>2, TeacherMovedIs
<1>7. \A u \in Users : /\ m.user[u].exists = d.user[u].exists
                       /\ m.user[u].role = d.user[u].role
                       /\ m.user[u].isActive = d.user[u].isActive
  <2>1. SUFFICES ASSUME NEW u \in Users
                 PROVE  /\ m.user[u].exists = d.user[u].exists
                        /\ m.user[u].role = d.user[u].role
                        /\ m.user[u].isActive = d.user[u].isActive
    OBVIOUS
  <2>2. m.user[u] = d.user[u] \/ m.user[u] = [d.user[u] EXCEPT !.center = q.center]
    <3>1. \/ m = d
          \/ m.user = d.user
          \/ m.user = [p \in Users |-> IF p \in Families(d, q.u)
                                          THEN [d.user[p] EXCEPT !.center = q.center]
                                          ELSE d.user[p]]
      BY <1>2, TeacherMovedIs
    <3> QED
      BY <2>1, <3>1
  <2>3. d.user[u] \in User
    BY <1>2, UserFields
  <2> QED
    BY <2>2, <2>3 DEF User
<1>8. \A s \in Students : \/ m.teacher[s] = d.teacher[s]
                          \/ m.teacher[s] \in Users /\ d.user[m.teacher[s]].exists
  <2>1. \/ m = d
        \/ m.teacher = d.teacher
        \/ /\ q.next \in Users /\ Is(d, q.next, "Teacher")
           /\ m.teacher = [s \in Students |-> IF s \in Enrolled(d, q.u) THEN q.next
                                                ELSE d.teacher[s]]
    BY <1>2, TeacherMovedIs
  <2> QED
    BY <2>1 DEF Is
<1>9. /\ e \in Database /\ e.user = m.user /\ e.students = m.students
      /\ e.teacher = m.teacher
      /\ \E found \in SUBSET Students :
              /\ e.link = m.link \cup ({q.u} \X found)
              /\ \A s \in found : s \in m.students
  BY <1>1, <1>6, LinkedByEmailIs
<1>10. \E found \in SUBSET Students :
              /\ e.link = d.link \cup ({q.u} \X found)
              /\ found \subseteq db.students
  BY <1>2, <1>6, <1>9
<1>11. \A s \in Students : \/ e.teacher[s] = db.teacher[s]
                           \/ e.teacher[s] \in Users /\ db.user[e.teacher[s]].exists
  BY <1>2, <1>4, <1>8, <1>9
<1>12. \A u \in Users : /\ e.user[u].exists = db.user[u].exists
                        /\ u # q.u => /\ e.user[u].role = db.user[u].role
                                      /\ e.user[u].isActive = db.user[u].isActive
  BY <1>4, <1>7, <1>9
<1>13. /\ e.user[q.u].role = q.role
       /\ e.user[q.u].isActive = (db.user[q.u].isActive \/ q.kids # {})
  BY <1>3, <1>5, <1>7, <1>9
<1>14. e.students = db.students
  BY <1>2, <1>6, <1>9
<1> QED
  BY <1>1, <1>9, <1>10, <1>11, <1>12, <1>13, <1>14 DEF d

LEMMA WithoutUserIs ==
  ASSUME db \in Database, NEW u \in Users
  PROVE  LET e == WithoutUser(u) IN
         /\ e \in Database /\ e.students = db.students
         /\ e.user = [db.user EXCEPT ![u] = NoUser]
         /\ e.link = db.link \ ({u} \X Students)
         /\ e.teacher = [s \in Students |-> IF db.teacher[s] = u THEN Nobody
                                             ELSE db.teacher[s]]
<1> DEFINE users == [db.user EXCEPT ![u] = NoUser]
           links == db.link \ ({u} \X Students)
           teachers == [s \in Students |-> IF db.teacher[s] = u THEN Nobody ELSE db.teacher[s]]
           ids == db.deleted \cup {u}
<1>1. WithoutUser(u) = [db EXCEPT !.user = users, !.link = links, !.teacher = teachers,
                                  !.deleted = ids]
  BY DEF WithoutUser, Database
<1>2. /\ users \in [Users -> User] /\ links \in SUBSET (Users \X Students)
      /\ teachers \in [Students -> Users \cup {Nobody}]
      /\ ids \in SUBSET (Users \cup Students)
  BY DatabaseFields, NoUserIsUser
<1> HIDE DEF users, links, teachers, ids
<1> DEFINE w1 == [db EXCEPT !.user = users]
           w2 == [w1 EXCEPT !.link = links]
           w3 == [w2 EXCEPT !.teacher = teachers]
           w4 == [w3 EXCEPT !.deleted = ids]
<1>3. /\ w1 \in Database /\ w1.user = users /\ w1.students = db.students
  BY <1>2, WithUsers
<1>4. WithoutUser(u) = w4
  BY <1>1 DEF Database
<1> HIDE DEF w1
<1>5. /\ w2 \in Database /\ w2.user = users /\ w2.students = db.students /\ w2.link = links
  BY <1>2, <1>3, WithLinks
<1> HIDE DEF w2
<1>6. /\ w3 \in Database /\ w3.user = users /\ w3.students = db.students /\ w3.link = links
      /\ w3.teacher = teachers
  BY <1>2, <1>5, WithTeachers
<1> HIDE DEF w3
<1>7. /\ w4 \in Database /\ w4.user = users /\ w4.students = db.students /\ w4.link = links
      /\ w4.teacher = teachers
  BY <1>2, <1>6, WithDeleted
<1> HIDE DEF w4
<1> QED
  BY <1>4, <1>7 DEF users, links, teachers

LEMMA WithoutStudentIs ==
  ASSUME db \in Database, NEW s \in Students
  PROVE  LET e == WithoutStudent(s) IN
         /\ e \in Database /\ e.students = db.students \ {s}
         /\ e.user = db.user
         /\ e.link = db.link \ (Users \X {s})
         /\ e.teacher = [db.teacher EXCEPT ![s] = Nobody]
<1> DEFINE rows == db.students \ {s}
           teachers == [db.teacher EXCEPT ![s] = Nobody]
           links == db.link \ (Users \X {s})
           mails == db.mail \ (Users \X {s})
           ids == db.deleted \cup {s}
<1>1. WithoutStudent(s) = [db EXCEPT !.students = rows, !.teacher = teachers, !.link = links,
                                     !.mail = mails, !.deleted = ids]
  BY DEF WithoutStudent, Database
<1>2. /\ rows \in SUBSET Students /\ teachers \in [Students -> Users \cup {Nobody}]
      /\ links \in SUBSET (Users \X Students) /\ mails \in SUBSET (Users \X Students)
      /\ ids \in SUBSET (Users \cup Students)
  BY DatabaseFields
<1> HIDE DEF rows, teachers, links, mails, ids
<1> DEFINE w1 == [db EXCEPT !.students = rows]
           w2 == [w1 EXCEPT !.teacher = teachers]
           w3 == [w2 EXCEPT !.link = links]
           w4 == [w3 EXCEPT !.mail = mails]
           w5 == [w4 EXCEPT !.deleted = ids]
<1>3. /\ w1 \in Database /\ w1.user = db.user /\ w1.students = rows
  BY <1>2, WithStudents
<1>4. WithoutStudent(s) = w5
  BY <1>1 DEF Database
<1> HIDE DEF w1
<1>5. /\ w2 \in Database /\ w2.user = db.user /\ w2.students = rows /\ w2.teacher = teachers
  BY <1>2, <1>3, WithTeachers
<1> HIDE DEF w2
<1>6. /\ w3 \in Database /\ w3.user = db.user /\ w3.students = rows /\ w3.teacher = teachers
      /\ w3.link = links
  BY <1>2, <1>5, WithLinks
<1> HIDE DEF w3
<1>7. /\ w4 \in Database /\ w4.user = db.user /\ w4.students = rows /\ w4.teacher = teachers
      /\ w4.link = links
  BY <1>2, <1>6, WithMail
<1> HIDE DEF w4
<1>8. /\ w5 \in Database /\ w5.user = db.user /\ w5.students = rows /\ w5.teacher = teachers
      /\ w5.link = links
  BY <1>2, <1>7, WithDeleted
<1> HIDE DEF w5
<1> QED
  BY <1>4, <1>8 DEF rows, teachers, links

LEMMA SavedIs ==
  ASSUME db \in Database, NEW q \in Saving, NEW d \in Saved(q)
  PROVE  /\ d \in Database /\ d.user = db.user /\ d.students = db.students \cup {q.s}
         /\ d.link = db.link
         /\ d.teacher = [db.teacher EXCEPT ![q.s] = IF q.op = "create" \/ q.moved
                                                    THEN q.teacher ELSE @]
         /\ q.s \in db.students <=> q.op = "edit"
         /\ q.teacher = Nobody \/ db.user[q.teacher].exists
<1> DEFINE rows == db.students \cup {q.s}
           teachers == [db.teacher EXCEPT ![q.s] = IF q.op = "create" \/ q.moved
                                                   THEN q.teacher ELSE @]
           mails == (db.mail \ (Users \X {q.s})) \cup (q.mail \X {q.s})
<1>1. /\ q.s \in Students /\ q.teacher \in Users \cup {Nobody} /\ q.mail \subseteq Users
  BY DEF Saving
<1>2. /\ rows \in SUBSET Students /\ teachers \in [Students -> Users \cup {Nobody}]
      /\ mails \in SUBSET (Users \X Students)
  BY <1>1, DatabaseFields
<1>3. /\ d = [db EXCEPT !.students = rows, !.teacher = teachers, !.mail = mails]
      /\ q.s \in db.students <=> q.op = "edit"
      /\ q.teacher = Nobody \/ db.user[q.teacher].exists
  BY DEF Saved, Database
<1> HIDE DEF rows, teachers, mails
<1> DEFINE w1 == [db EXCEPT !.students = rows]
           w2 == [w1 EXCEPT !.teacher = teachers]
           w3 == [w2 EXCEPT !.mail = mails]
<1>4. d = w3
  BY <1>3 DEF Database
<1>5. /\ w1 \in Database /\ w1.user = db.user /\ w1.students = rows /\ w1.link = db.link
  BY <1>2, WithStudents
<1> HIDE DEF w1
<1>6. /\ w2 \in Database /\ w2.user = db.user /\ w2.students = rows /\ w2.link = db.link
      /\ w2.teacher = teachers
  BY <1>2, <1>5, WithTeachers
<1> HIDE DEF w2
<1>7. /\ w3 \in Database /\ w3.user = db.user /\ w3.students = rows /\ w3.link = db.link
      /\ w3.teacher = teachers
  BY <1>2, <1>6, WithMail
<1> HIDE DEF w3
<1> QED
  BY <1>3, <1>4, <1>7 DEF rows, teachers

LEMMA LinkedAccountsIs ==
  ASSUME NEW q \in Saving, NEW d \in Database
  PROVE  LET e == LinkedAccounts(q, d) IN
         /\ e \in Database /\ e.students = d.students /\ e.teacher = d.teacher
         /\ e.link = d.link \cup (NewlyListed(q, d) \X {q.s})
         /\ e.user = [u \in Users |-> IF u \in NewlyListed(q, d)
                                        THEN [d.user[u] EXCEPT !.isActive = TRUE] ELSE d.user[u]]
<1> DEFINE listed == NewlyListed(q, d)
           users == [u \in Users |-> IF u \in listed
                                       THEN [d.user[u] EXCEPT !.isActive = TRUE] ELSE d.user[u]]
           links == d.link \cup (listed \X {q.s})
<1>1. q.s \in Students /\ listed \subseteq Users
  BY DEF Saving, NewlyListed
<1>2. LinkedAccounts(q, d) = [d EXCEPT !.link = links, !.user = users]
  BY DEF LinkedAccounts, Database
<1> HIDE DEF listed
<1>3. \A u \in Users : users[u] \in User
  BY UserFields DEF User
<1>4. users \in [Users -> User] /\ links \in SUBSET (Users \X Students)
  BY <1>1, <1>3, DatabaseFields
<1> HIDE DEF users, links
<1> DEFINE w1 == [d EXCEPT !.link = links]
           w2 == [w1 EXCEPT !.user = users]
<1>5. LinkedAccounts(q, d) = w2
  BY <1>2 DEF Database
<1>6. /\ w1 \in Database /\ w1.students = d.students /\ w1.teacher = d.teacher
      /\ w1.link = links
  BY <1>4, WithLinks
<1> HIDE DEF w1
<1>7. /\ w2 \in Database /\ w2.students = d.students /\ w2.teacher = d.teacher
      /\ w2.link = links /\ w2.user = users
  BY <1>4, <1>6, WithUsers
<1> HIDE DEF w2
<1>8. /\ w2.link = d.link \cup (NewlyListed(q, d) \X {q.s})
      /\ w2.user = [u \in Users |-> IF u \in NewlyListed(q, d)
                                       THEN [d.user[u] EXCEPT !.isActive = TRUE]
                                       ELSE d.user[u]]
  BY <1>7 DEF users, links, listed
<1> QED
  BY <1>5, <1>7, <1>8

\* The account of u after it.
LEMMA LinkedAccountsRow ==
  ASSUME NEW q \in Saving, NEW d \in Database, NEW e, e = LinkedAccounts(q, d), NEW u \in Users
  PROVE  /\ e.user[u].exists = d.user[u].exists
         /\ e.user[u].role = d.user[u].role
         /\ e.user[u].center = d.user[u].center
         /\ e.user[u].isActive = (d.user[u].isActive \/ u \in NewlyListed(q, d))
<1>1. e.user = [x \in Users |-> IF x \in NewlyListed(q, d)
                                  THEN [d.user[x] EXCEPT !.isActive = TRUE] ELSE d.user[x]]
  BY LinkedAccountsIs
<1>2. e.user[u] = IF u \in NewlyListed(q, d)
                  THEN [d.user[u] EXCEPT !.isActive = TRUE] ELSE d.user[u]
  BY <1>1
<1>3. d.user[u] \in User
  BY UserFields
<1>4. CASE u \in NewlyListed(q, d)
  BY <1>2, <1>3, <1>4 DEF User
<1>5. CASE u \notin NewlyListed(q, d)
  BY <1>2, <1>3, <1>5 DEF User
<1> QED
  BY <1>4, <1>5

Deactivated(parents) ==
  [db EXCEPT !.user = [u \in Users |-> IF u \in Childless(parents)
                                         THEN [db.user[u] EXCEPT !.isActive = FALSE]
                                         ELSE db.user[u]]]

LEMMA DeactivatedIs ==
  ASSUME db \in Database, NEW parents
  PROVE  LET e == Deactivated(parents) IN
         /\ e \in Database /\ e.students = db.students /\ e.teacher = db.teacher
         /\ e.link = db.link
         /\ \A u \in Users : /\ e.user[u].exists = db.user[u].exists
                             /\ e.user[u].role = db.user[u].role
                             /\ e.user[u].center = db.user[u].center
                             /\ e.user[u].isActive =
                                  (db.user[u].isActive /\ u \notin Childless(parents))
<1> DEFINE users == [u \in Users |-> IF u \in Childless(parents)
                                       THEN [db.user[u] EXCEPT !.isActive = FALSE]
                                       ELSE db.user[u]]
<1>1. \A u \in Users : /\ users[u] \in User
                       /\ users[u].exists = db.user[u].exists
                       /\ users[u].role = db.user[u].role
                       /\ users[u].center = db.user[u].center
                       /\ users[u].isActive =
                            (db.user[u].isActive /\ u \notin Childless(parents))
  <2> SUFFICES ASSUME NEW u \in Users
               PROVE  /\ users[u] \in User
                      /\ users[u].exists = db.user[u].exists
                      /\ users[u].role = db.user[u].role
                      /\ users[u].center = db.user[u].center
                      /\ users[u].isActive =
                           (db.user[u].isActive /\ u \notin Childless(parents))
    OBVIOUS
  <2>1. db.user[u] \in User
    BY UserFields
  <2> QED
    BY <2>1 DEF User
<1>2. users \in [Users -> User]
  BY <1>1
<1>3. Deactivated(parents) = [db EXCEPT !.user = users]
  BY DEF Deactivated
<1> HIDE DEF users
<1> DEFINE e == [db EXCEPT !.user = users]
<1>4. /\ e \in Database /\ e.students = db.students /\ e.teacher = db.teacher
      /\ e.link = db.link /\ e.user = users
  BY <1>2, WithUsers
<1> HIDE DEF e
<1> QED
  BY <1>1, <1>3, <1>4 DEF e

----------------------------------------------------------------------------
(* What a request has read *)

\* What a request read of the database d and relies on.  A new account and the children
\* it is given are of one center; an update knows the role and center that the account
\* has; somebody else can sign in as an Admin when an Admin is deleted.
Reads(d, q) ==
  /\ q.op = "register" /\ q.role = "Parent" => \A s \in q.kids : CenterOf(d, s) = q.center
  /\ q.op = "update" =>
       /\ q.was.role = d.user[q.u].role /\ q.was.center = d.user[q.u].center
       /\ q.role = "Parent" =>
            /\ \A s \in q.kids : CenterOf(d, s) = q.center
            /\ q.was.role # "Parent" => q.given /\ q.scope = NoCenter
  /\ q.op = "delete_user" =>
       (Active(d, "Admin") # {} => \E a \in Active(d, "Admin") : a # q.u)

LEMMA AccessIsOfCenter ==
  ASSUME db \in Database, NEW a \in Users, NEW s \in Students,
         ~IsAdmin(a), CanAccess(a, s)
  PROVE  CenterOf(db, s) = db.user[a].center
BY FamiliesAssumption DEF CanAccess, CenterOf

LEMMA CenterFromStudentsIs ==
  ASSUME NEW kids, NEW c \in CenterFromStudents(kids)
  PROVE  c \in Place /\ \A s \in kids : CenterOf(db, s) = c
BY DEF CenterFromStudents, Place

LEMMA RegisterBegins ==
  ASSUME TypeOK, NEW r \in Requests, NEW a \in Users, NEW u \in Users, NEW role \in Roles,
         NEW kids \in SUBSET Students, RegisterUser(r, a, u, role, kids)
  PROVE  \E q \in Registering : Begin(r, q) /\ Reads(db, q)
<1>1. PICK c \in CenterOfNew(a, role, kids) :
         Begin(r, [op |-> "register", u |-> u, role |-> role, center |-> c, kids |-> kids])
  BY DEF RegisterUser
<1>2. db \in Database
  BY DEF TypeOK
<1>3. c \in Place
  <2>1. db.user[a].center \in Place
    BY <1>2, UserFields
  <2> QED
    BY <1>1, <2>1, CenterFromStudentsIs DEF CenterOfNew, Place
<1>4. role = "Parent" => \A s \in kids : CenterOf(db, s) = c
  BY <1>1, <1>2, AccessIsOfCenter, CenterFromStudentsIs DEF CenterOfNew
<1> DEFINE q == [op |-> "register", u |-> u, role |-> role, center |-> c, kids |-> kids]
<1>5. q \in Registering
  BY <1>3 DEF Registering
<1>6. Reads(db, q)
  BY <1>4 DEF Reads
<1> QED
  BY <1>1, <1>5, <1>6

LEMMA UpdateBegins ==
  ASSUME TypeOK, NEW r \in Requests, NEW a \in Users, NEW u \in Users, NEW role \in Roles,
         UpdateUser(r, a, u, role)
  PROVE  \E q \in Updating : Begin(r, q) /\ Reads(db, q)
<1>1. db \in Database
  BY DEF TypeOK
<1> DEFINE was == [role |-> db.user[u].role, center |-> db.user[u].center]
           scope == IF IsAdmin(a) THEN NoCenter ELSE db.user[a].center
           KidsOf(given) == IF given /\ role = "Parent" THEN SUBSET Students ELSE {{}}
           ListsOf(mailed) == IF mailed /\ u \in Listed THEN SUBSET Students ELSE {{}}
           ChoicesOf(c) == IF Is(db, u, "Teacher") /\ role = "Teacher" /\ c # db.user[u].center
                           THEN Choices ELSE {<<"none", Nobody>>}
           Form(given, kids, mailed, lists, c, choice) ==
             [op |-> "update", u |-> u, role |-> role, center |-> c, was |-> was,
              scope |-> scope, given |-> given, kids |-> kids, mailed |-> mailed,
              lists |-> lists, action |-> choice[1], next |-> choice[2]]
<1>2. PICK given \in BOOLEAN, mailed \in BOOLEAN :
        \E kids \in KidsOf(given), lists \in ListsOf(mailed) :
          /\ MayUpdate(a, u, role, mailed, kids)
          /\ \E c \in CenterOfUpdated(a, u, role, given, kids) : \E choice \in ChoicesOf(c) :
               Begin(r, Form(given, kids, mailed, lists, c, choice))
  BY DEF UpdateUser
<1>3. PICK kids \in KidsOf(given), lists \in ListsOf(mailed) :
          /\ MayUpdate(a, u, role, mailed, kids)
          /\ \E c \in CenterOfUpdated(a, u, role, given, kids) : \E choice \in ChoicesOf(c) :
               Begin(r, Form(given, kids, mailed, lists, c, choice))
  BY <1>2
<1>4. PICK c \in CenterOfUpdated(a, u, role, given, kids) : \E choice \in ChoicesOf(c) :
        Begin(r, Form(given, kids, mailed, lists, c, choice))
  BY <1>3
<1>13. PICK choice \in ChoicesOf(c) : Begin(r, Form(given, kids, mailed, lists, c, choice))
  BY <1>4
<1> DEFINE q == Form(given, kids, mailed, lists, c, choice)
<1>5. /\ was \in [role : Roles, center : Place] /\ was.role = db.user[u].role
      /\ was.center = db.user[u].center
  BY <1>1, UserFields
<1>6. scope \in Place
  BY <1>1, UserFields DEF Place
<1>7. kids \in SUBSET Students /\ lists \in SUBSET Students
  OBVIOUS
<1>8. choice[1] \in {"none", "move", "transfer"} /\ choice[2] \in Users \cup {Nobody}
  BY DEF Choices
<1>9. c \in Place
  BY <1>1, UserFields, CenterFromStudentsIs DEF CenterOfUpdated, Place
<1> HIDE DEF was, scope
<1>10. q \in Updating
  BY <1>5, <1>6, <1>7, <1>8, <1>9 DEF Updating
<1>11. role = "Parent" => /\ \A s \in kids : CenterOf(db, s) = c
                          /\ db.user[u].role # "Parent" => given /\ scope = NoCenter
  <2> SUFFICES ASSUME role = "Parent"
               PROVE  /\ \A s \in kids : CenterOf(db, s) = c
                      /\ db.user[u].role # "Parent" => given /\ scope = NoCenter
    OBVIOUS
  <2>1. CASE IsAdmin(a) /\ given
    BY <1>4, <2>1, CenterFromStudentsIs DEF CenterOfUpdated, scope
  <2>2. CASE IsAdmin(a) /\ ~given
    BY <1>4, <2>2 DEF CenterOfUpdated
  <2>3. CASE ~IsAdmin(a)
    <3>1. c = db.user[u].center
      BY <1>4, <2>3 DEF CenterOfUpdated
    <3>2. /\ db.user[u].role = "Parent" /\ db.user[u].center = db.user[a].center
          /\ \A s \in kids : CanAccess(a, s)
      BY <1>3, <2>3 DEF MayUpdate, Is
    <3>3. \A s \in kids : CenterOf(db, s) = db.user[a].center
      BY <1>1, <1>7, <2>3, <3>2, AccessIsOfCenter
    <3> QED
      BY <3>1, <3>2, <3>3
  <2> QED
    BY <2>1, <2>2, <2>3
<1>12. Reads(db, q)
  BY <1>5, <1>11 DEF Reads
<1> QED
  BY <1>13, <1>10, <1>12

LEMMA DeletionBegins ==
  ASSUME TypeOK, NEW r \in Requests, NEW a \in Users,
         \/ DeleteMyAccount(r, a)
         \/ \E u \in Users : DeleteUser(r, a, u)
  PROVE  \E q \in DeletingUser : Begin(r, q) /\ Reads(db, q)
<1>1. CASE DeleteMyAccount(r, a)
  <2> DEFINE q == [op |-> "delete_user", u |-> a]
  <2>1. q \in DeletingUser /\ Begin(r, q)
    BY <1>1 DEF DeletingUser, DeleteMyAccount
  <2>2. Active(db, "Admin") # {} => \E x \in Active(db, "Admin") : x # a
    <3>1. CASE a \in Active(db, "Admin")
      <4>1. Cardinality(Active(db, "Admin")) > 1
        BY <1>1, <3>1 DEF DeleteMyAccount, EnoughAdmins, Active
      <4>2. CASE Active(db, "Admin") = {a}
        <5>1. Cardinality(Active(db, "Admin")) = 1
          BY <4>2, FS_Singleton
        <5> QED
          BY <4>1, <5>1
      <4>3. CASE Active(db, "Admin") # {a}
        BY <3>1, <4>3
      <4> QED
        BY <4>2, <4>3
    <3>2. CASE a \notin Active(db, "Admin")
      BY <3>2
    <3> QED
      BY <3>1, <3>2
  <2>3. Reads(db, q)
    BY <2>2 DEF Reads
  <2> QED
    BY <2>1, <2>3
<1>2. CASE \E u \in Users : DeleteUser(r, a, u)
  <2>1. PICK u \in Users : DeleteUser(r, a, u)
    BY <1>2
  <2> DEFINE q == [op |-> "delete_user", u |-> u]
  <2>2. q \in DeletingUser /\ Begin(r, q)
    BY <2>1 DEF DeletingUser, DeleteUser
  <2>3. Active(db, "Admin") # {} => \E x \in Active(db, "Admin") : x # u
    <3>1. CASE IsAdmin(a)
      <4>1. a \in Active(db, "Admin") /\ a # u
        BY <2>1, <3>1 DEF DeleteUser, SignedIn, Active, Is, IsAdmin
      <4> QED
        BY <4>1
    <3>2. CASE ~IsAdmin(a)
      <4>1. u \notin Active(db, "Admin")
        BY <2>1, <3>2 DEF DeleteUser, Active, Is
      <4> QED
        BY <4>1
    <3> QED
      BY <3>1, <3>2
  <2>4. Reads(db, q)
    BY <2>3 DEF Reads
  <2> QED
    BY <2>2, <2>4
<1> QED
  BY <1>1, <1>2

LEMMA StudentBegins ==
  ASSUME TypeOK, NEW r \in Requests, NEW a \in Users,
         \/ \E s \in Students, mail \in SUBSET Listed :
              \/ \E t \in TeachersFor(a) : CreateStudent(r, a, s, t, mail)
              \/ \E t \in TeachersFor(a) : IsAdmin(a) /\ UpdateStudent(r, a, s, TRUE, t, mail)
              \/ UpdateStudent(r, a, s, FALSE, Nobody, mail)
         \/ \E s \in Students : \E parents \in {ParentsOf(db, s), {}} :
              DeleteStudent(r, a, s, parents)
  PROVE  \E q \in Saving \cup DeletingStudent :
           Begin(r, q) /\ q.op # "deactivate" /\ Reads(db, q)
<1>1. CASE \E s \in Students, mail \in SUBSET Listed :
              \/ \E t \in TeachersFor(a) : CreateStudent(r, a, s, t, mail)
              \/ \E t \in TeachersFor(a) : IsAdmin(a) /\ UpdateStudent(r, a, s, TRUE, t, mail)
              \/ UpdateStudent(r, a, s, FALSE, Nobody, mail)
  <2>1. PICK s \in Students, mail \in SUBSET Listed, t \in Users \cup {Nobody},
             op \in {"create", "edit"}, moved \in BOOLEAN :
           Begin(r, [op |-> op, s |-> s, moved |-> moved, teacher |-> t, mail |-> mail])
    <3>1. \A t \in TeachersFor(a) : t \in Users \cup {Nobody}
      BY DEF TeachersFor
    <3>2. PICK s \in Students, mail \in SUBSET Listed :
              \/ \E t \in TeachersFor(a) : CreateStudent(r, a, s, t, mail)
              \/ \E t \in TeachersFor(a) : IsAdmin(a) /\ UpdateStudent(r, a, s, TRUE, t, mail)
              \/ UpdateStudent(r, a, s, FALSE, Nobody, mail)
      BY <1>1
    <3> QED
      BY <3>1, <3>2 DEF CreateStudent, UpdateStudent
  <2> DEFINE q == [op |-> op, s |-> s, moved |-> moved, teacher |-> t, mail |-> mail]
  <2>2. q \in Saving
    BY FamiliesAssumption DEF Saving
  <2>3. Reads(db, q) /\ q.op # "deactivate"
    BY DEF Reads
  <2> QED
    BY <2>1, <2>2, <2>3
<1>2. CASE \E s \in Students : \E parents \in {ParentsOf(db, s), {}} :
             DeleteStudent(r, a, s, parents)
  <2>1. PICK s \in Students, parents \in SUBSET Users :
           Begin(r, [op |-> "delete_student", s |-> s, parents |-> parents])
    BY <1>2 DEF DeleteStudent, ParentsOf
  <2> DEFINE q == [op |-> "delete_student", s |-> s, parents |-> parents]
  <2>2. q \in DeletingStudent
    BY DEF DeletingStudent
  <2>3. Reads(db, q) /\ q.op # "deactivate"
    BY DEF Reads
  <2> QED
    BY <2>1, <2>2, <2>3
<1> QED
  BY <1>1, <1>2

\* A request that arrives has read the database as it is.
LEMMA ArrivalReads ==
  ASSUME TypeOK, NEW r \in Requests, Arrives(r)
  PROVE  /\ req[r] = Idle
         /\ used' \in 0..MaxOps
         /\ \E q \in Request : /\ req' = [req EXCEPT ![r] = q]
                               /\ q.op \notin {"none", "deactivate"} /\ Reads(db, q)
         /\ late' = late \ {r}
         /\ db' = db /\ missed' = missed /\ matched' = matched
<1>1. PICK a \in Users : Asks(r, a)
  BY DEF Arrives
<1>2. used' \in 0..MaxOps
  BY FamiliesAssumption DEF Arrives, Count, TypeOK
<1>3. \E q \in Request : Begin(r, q) /\ q.op \notin {"none", "deactivate"} /\ Reads(db, q)
  <2>1. CASE \E u \in Users, role \in Roles : UpdateUser(r, a, u, role)
    BY <2>1, UpdateBegins, RequestKinds DEF Updating
  <2>2. CASE \E u \in Users, role \in Roles : \E kids \in SUBSET Students :
               RegisterUser(r, a, u, role, kids)
    BY <2>2, RegisterBegins, RequestKinds DEF Registering
  <2>3. CASE DeleteMyAccount(r, a) \/ \E u \in Users : DeleteUser(r, a, u)
    BY <2>3, DeletionBegins, RequestKinds DEF DeletingUser
  <2>4. CASE \/ \E s \in Students, mail \in SUBSET Listed :
                  \/ \E t \in TeachersFor(a) : CreateStudent(r, a, s, t, mail)
                  \/ \E t \in TeachersFor(a) :
                       IsAdmin(a) /\ UpdateStudent(r, a, s, TRUE, t, mail)
                  \/ UpdateStudent(r, a, s, FALSE, Nobody, mail)
             \/ \E s \in Students : \E parents \in {ParentsOf(db, s), {}} :
                  DeleteStudent(r, a, s, parents)
    BY <2>4, StudentBegins, RequestKinds DEF Saving, DeletingStudent
  <2> QED
    BY <1>1, <2>1, <2>2, <2>3, <2>4 DEF Asks
<1> QED
  BY <1>2, <1>3 DEF Arrives, Begin

----------------------------------------------------------------------------
(* Type correctness *)

\* One of the transactions of r, or of its last statement: the database becomes e.
LEMMA CommitIs ==
  ASSUME TypeOK, NEW r \in Requests, NEW e, Commit(r, e)
  PROVE  db' = e /\ used' = used /\ late' \subseteq Requests
BY DEF Commit, TypeOK

LEMMA AccountCommitsIs ==
  ASSUME TypeOK, NEW r \in Requests, AccountCommits(r)
  PROVE  /\ Done(r) /\ missed' = missed /\ matched \subseteq matched'
         /\ \/ /\ req[r] \in Registering /\ req[r].op = "register"
               /\ \E e \in Registered(req[r]) : Commit(r, e)
               /\ matched' = matched
            \/ /\ req[r] \in Updating /\ req[r].op = "update"
               /\ \E e \in Updated(req[r]) :
                    /\ Commit(r, e)
                    /\ matched' = IF e.link # Rewritten(req[r]).link
                                       /\ ~e.user[req[r].u].isActive
                                  THEN matched \cup {req[r].u} ELSE matched
            \/ /\ req[r] \in DeletingUser /\ req[r].op = "delete_user"
               /\ db.user[req[r].u].exists
               /\ Commit(r, WithoutUser(req[r].u))
               /\ matched' = matched
<1>1. req[r] \in Request
  BY DEF TypeOK
<1>2. Done(r) /\ missed' = missed
  BY DEF AccountCommits
<1>3. CASE /\ req[r].op = "register"
           /\ \E d \in Registered(req[r]) : Commit(r, d)
           /\ UNCHANGED matched
  BY <1>1, <1>2, <1>3, KindOf
<1>4. CASE /\ req[r].op = "update"
           /\ \E d \in Updated(req[r]) :
             /\ Commit(r, d)
             /\ matched' = IF d.link # Rewritten(req[r]).link /\ ~d.user[req[r].u].isActive
                           THEN matched \cup {req[r].u} ELSE matched
  <2>1. matched \subseteq matched'
    BY <1>4
  <2>2. req[r] \in Updating
    BY <1>1, <1>4, KindOf
  <2> QED
    BY <1>2, <1>4, <2>1, <2>2
<1>5. CASE /\ req[r].op = "delete_user" /\ db.user[req[r].u].exists
           /\ Commit(r, WithoutUser(req[r].u))
           /\ UNCHANGED matched
  BY <1>1, <1>2, <1>5, KindOf
<1> QED
  BY <1>3, <1>4, <1>5 DEF AccountCommits

LEMMA StudentCommitsIs ==
  ASSUME TypeOK, NEW r \in Requests, StudentCommits(r)
  PROVE  /\ req[r] \in Saving
         /\ \E d \in Saved(req[r]) :
              ParentsAreAt(req[r], d) /\ Commit(r, LinkedAccounts(req[r], d))
         /\ Done(r) /\ missed' = missed /\ matched' = matched
<1>1. req[r] \in Request /\ req[r].op \in {"create", "edit"}
  BY DEF TypeOK, StudentCommits
<1>2. req[r] \in Saving
  BY <1>1, KindOf
<1> QED
  BY <1>2 DEF StudentCommits

LEMMA StudentDeletedIs ==
  ASSUME TypeOK, NEW r \in Requests, StudentDeleted(r)
  PROVE  /\ req[r] \in DeletingStudent /\ req[r].op = "delete_student"
         /\ Commit(r, WithoutStudent(req[r].s))
         /\ req' = [req EXCEPT ![r] = [req[r] EXCEPT !.op = "deactivate"]]
         /\ missed' = missed \cup (ParentsOf(db, req[r].s) \ req[r].parents)
         /\ matched' = matched
<1>1. req[r] \in Request /\ req[r].op = "delete_student" /\ req \in [Requests -> Request]
  BY DEF TypeOK, StudentDeleted
<1>2. req[r] \in DeletingStudent
  BY <1>1, KindOf
<1>3. req' = [req EXCEPT ![r] = [req[r] EXCEPT !.op = "deactivate"]]
  BY <1>1 DEF StudentDeleted
<1> QED
  BY <1>1, <1>2, <1>3 DEF StudentDeleted

LEMMA ParentsDeactivatedIs ==
  ASSUME TypeOK, NEW r \in Requests, ParentsDeactivated(r)
  PROVE  /\ req[r] \in DeletingStudent /\ req[r].op = "deactivate"
         /\ Commit(r, Deactivated(req[r].parents))
         /\ Done(r) /\ missed' = missed /\ matched' = matched
<1>1. req[r] \in Request /\ req[r].op = "deactivate"
  BY DEF TypeOK, ParentsDeactivated
<1>2. req[r] \in DeletingStudent
  BY <1>1, KindOf
<1> QED
  BY <1>1, <1>2 DEF ParentsDeactivated, Deactivated

LEMMA DeactivationFailsIs ==
  ASSUME TypeOK, NEW r \in Requests, DeactivationFails(r)
  PROVE  /\ req[r] \in DeletingStudent /\ req[r].op = "deactivate"
         /\ Done(r) /\ missed' = missed \cup req[r].parents
         /\ db' = db /\ used' = used /\ matched' = matched /\ late' = late \ {r}
<1>1. req[r] \in Request /\ req[r].op = "deactivate"
  BY DEF TypeOK, DeactivationFails
<1>2. req[r] \in DeletingStudent
  BY <1>1, KindOf
<1> QED
  BY <1>1, <1>2 DEF DeactivationFails

LEMMA DatabaseKept ==
  ASSUME TypeOK, [Next]_vars
  PROVE  db' \in Database
<1> USE DEF TypeOK
<1>1. CASE UNCHANGED vars
  BY <1>1 DEF vars
<1>2. ASSUME NEW r \in Requests, Arrives(r)
      PROVE  db' \in Database
  BY <1>2, ArrivalReads
<1>3. ASSUME NEW r \in Requests, AccountCommits(r)
      PROVE  db' \in Database
  <2>1. ASSUME NEW e \in Registered(req[r]), req[r] \in Registering, Commit(r, e)
        PROVE  db' \in Database
    BY <2>1, RegisteredIs DEF Commit
  <2>2. ASSUME NEW e \in Updated(req[r]), req[r] \in Updating, Commit(r, e)
        PROVE  db' \in Database
    BY <2>2, UpdatedIs DEF Commit
  <2>3. CASE req[r] \in DeletingUser /\ Commit(r, WithoutUser(req[r].u))
    <3>1. req[r].u \in Users
      BY <2>3 DEF DeletingUser
    <3>2. WithoutUser(req[r].u) \in Database
      BY <3>1, WithoutUserIs
    <3> QED
      BY <2>3, <3>2 DEF Commit
  <2> QED
    BY <1>3, <2>1, <2>2, <2>3, AccountCommitsIs
<1>4. ASSUME NEW r \in Requests, StudentCommits(r)
      PROVE  db' \in Database
  <2>1. PICK d \in Saved(req[r]) : Commit(r, LinkedAccounts(req[r], d))
    BY <1>4, StudentCommitsIs
  <2>2. req[r] \in Saving /\ d \in Database
    BY <1>4, <2>1, StudentCommitsIs, SavedIs
  <2>3. LinkedAccounts(req[r], d) \in Database
    BY <2>2, LinkedAccountsIs
  <2> QED
    BY <2>1, <2>3 DEF Commit
<1>5. ASSUME NEW r \in Requests, StudentDeleted(r)
      PROVE  db' \in Database
  <2>1. req[r].s \in Students
    BY <1>5, StudentDeletedIs DEF DeletingStudent
  <2>2. WithoutStudent(req[r].s) \in Database
    BY <2>1, WithoutStudentIs
  <2> QED
    BY <1>5, <2>2, StudentDeletedIs DEF Commit
<1>6. ASSUME NEW r \in Requests, ParentsDeactivated(r)
      PROVE  db' \in Database
  <2>1. Deactivated(req[r].parents) \in Database
    BY DeactivatedIs
  <2> QED
    BY <1>6, <2>1, ParentsDeactivatedIs DEF Commit
<1>7. ASSUME NEW r \in Requests, DeactivationFails(r) \/ Refuse(r)
      PROVE  db' \in Database
  BY <1>7 DEF DeactivationFails, Refuse
<1> QED
  BY <1>1, <1>2, <1>3, <1>4, <1>5, <1>6, <1>7 DEF Next, Goes

LEMMA DoneKeepsRequests ==
  ASSUME TypeOK, NEW r \in Requests, Done(r)
  PROVE  req' \in [Requests -> Request]
BY IdleIsRequest DEF TypeOK, Done

LEMMA RequestsKept ==
  ASSUME TypeOK, [Next]_vars
  PROVE  req' \in [Requests -> Request]
<1> USE DEF TypeOK
<1>1. CASE UNCHANGED vars
  BY <1>1 DEF vars
<1>2. ASSUME NEW r \in Requests, Arrives(r)
      PROVE  req' \in [Requests -> Request]
  BY <1>2, ArrivalReads
<1>3. ASSUME NEW r \in Requests, Done(r)
      PROVE  req' \in [Requests -> Request]
  BY <1>3, DoneKeepsRequests
<1>4. ASSUME NEW r \in Requests, StudentDeleted(r)
      PROVE  req' \in [Requests -> Request]
  <2>1. [req[r] EXCEPT !.op = "deactivate"] \in Request
    BY <1>4, StudentDeletedIs, RequestKinds DEF DeletingStudent
  <2> QED
    BY <1>4, <2>1, StudentDeletedIs
<1> QED
  BY <1>1, <1>2, <1>3, <1>4
     DEF Next, Goes, AccountCommits, StudentCommits, ParentsDeactivated, DeactivationFails,
         Refuse

LEMMA HistoryKept ==
  ASSUME TypeOK, [Next]_vars
  PROVE  /\ used' \in 0..MaxOps
         /\ late' \subseteq Requests /\ missed' \subseteq Users /\ matched' \subseteq Users
<1> USE DEF TypeOK
<1>1. CASE UNCHANGED vars
  BY <1>1 DEF vars, history
<1>2. ASSUME NEW r \in Requests, Arrives(r)
      PROVE  /\ used' \in 0..MaxOps
             /\ late' \subseteq Requests /\ missed' \subseteq Users /\ matched' \subseteq Users
  BY <1>2, ArrivalReads
<1>3. ASSUME NEW r \in Requests, AccountCommits(r)
      PROVE  /\ used' \in 0..MaxOps
             /\ late' \subseteq Requests /\ missed' \subseteq Users /\ matched' \subseteq Users
  <2>1. used' = used /\ late' \subseteq Requests
    BY <1>3, CommitIs DEF AccountCommits
  <2>2. matched' = matched \/ (req[r] \in Updating /\ matched' \subseteq matched \cup {req[r].u})
    BY <1>3, AccountCommitsIs
  <2>3. matched' \subseteq Users
    BY <2>2 DEF Updating
  <2> QED
    BY <1>3, <2>1, <2>3, AccountCommitsIs
<1>4. ASSUME NEW r \in Requests, StudentCommits(r) \/ ParentsDeactivated(r)
      PROVE  /\ used' \in 0..MaxOps
             /\ late' \subseteq Requests /\ missed' \subseteq Users /\ matched' \subseteq Users
  BY <1>4, StudentCommitsIs, ParentsDeactivatedIs, CommitIs
<1>5. ASSUME NEW r \in Requests, StudentDeleted(r)
      PROVE  /\ used' \in 0..MaxOps
             /\ late' \subseteq Requests /\ missed' \subseteq Users /\ matched' \subseteq Users
  <2>1. used' = used /\ late' \subseteq Requests
    BY <1>5, StudentDeletedIs, CommitIs
  <2>2. missed' \subseteq Users
    BY <1>5, StudentDeletedIs DEF ParentsOf
  <2> QED
    BY <1>5, <2>1, <2>2, StudentDeletedIs
<1>6. ASSUME NEW r \in Requests, DeactivationFails(r)
      PROVE  /\ used' \in 0..MaxOps
             /\ late' \subseteq Requests /\ missed' \subseteq Users /\ matched' \subseteq Users
  BY <1>6, DeactivationFailsIs DEF DeletingStudent
<1>7. ASSUME NEW r \in Requests, Refuse(r)
      PROVE  /\ used' \in 0..MaxOps
             /\ late' \subseteq Requests /\ missed' \subseteq Users /\ matched' \subseteq Users
  BY <1>7 DEF Refuse
<1> QED
  BY <1>1, <1>2, <1>3, <1>4, <1>5, <1>6, <1>7 DEF Next, Goes

\* Every variable keeps its type.
THEOREM TypeCorrect == Spec => []TypeOK
<1>1. Init => TypeOK
  BY FamiliesAssumption, StartAssumption, IdleIsRequest DEF Init, TypeOK
<1>2. TypeOK /\ [Next]_vars => TypeOK'
  BY DatabaseKept, RequestsKept, HistoryKept DEF TypeOK
<1> QED
  BY <1>1, <1>2, PTL DEF Spec

----------------------------------------------------------------------------
(* References *)

LEMMA RegisteredRefers ==
  ASSUME db \in Database, ReferencesHold(db), NEW q \in Registering, NEW e \in Registered(q)
  PROVE  ReferencesHold(e)
<1>1. PICK found \in SUBSET Students :
        /\ e.link = db.link \cup ({q.u} \X (q.kids \cup found))
        /\ \A s \in found : s \in db.students
  BY RegisteredIs
<1>2. /\ q.kids \subseteq db.students
      /\ e.students = db.students /\ e.teacher = db.teacher
  BY RegisteredIs
<1>3. \A u \in Users : /\ e.user[u].exists <=> (u = q.u \/ db.user[u].exists)
  <2>1. /\ e.user = [db.user EXCEPT ![q.u] = [exists |-> TRUE, role |-> q.role,
                                               center |-> q.center, isActive |-> TRUE]]
        /\ q.u \in Users /\ db.user \in [Users -> User]
    BY RegisteredIs, DatabaseFields DEF Registering
  <2>2. \A u \in Users : u # q.u => e.user[u] = db.user[u]
    BY <2>1
  <2>3. e.user[q.u].exists
    BY <2>1
  <2> QED
    BY <2>2, <2>3
<1>4. \A s \in Students : db.teacher[s] \in Users \cup {Nobody}
  BY DatabaseFields
<1> QED
  BY <1>1, <1>2, <1>3, <1>4 DEF ReferencesHold, Registering

LEMMA UpdatedRefers ==
  ASSUME db \in Database, ReferencesHold(db), NEW q \in Updating, NEW e \in Updated(q)
  PROVE  ReferencesHold(e)
<1>1. PICK found \in SUBSET Students :
        /\ e.link = Rewritten(q).link \cup ({q.u} \X found)
        /\ found \subseteq db.students
  BY UpdatedIs
<1>2. /\ q.kids \subseteq db.students /\ e.students = db.students
      /\ db.user[q.u].exists
      /\ \A u \in Users : e.user[u].exists = db.user[u].exists
      /\ \A s \in Students : \/ e.teacher[s] = db.teacher[s]
                             \/ e.teacher[s] \in Users /\ db.user[e.teacher[s]].exists
  BY UpdatedIs
<1>3. \A u \in Users, s \in Students :
        <<u, s>> \in Rewritten(q).link => \/ <<u, s>> \in db.link
                                          \/ u = q.u /\ s \in q.kids
  <2>1. Rewritten(q).link = (db.link \ ({q.u} \X Dropped(q))) \cup ({q.u} \X q.kids)
    BY RewrittenIs
  <2> QED
    BY <2>1
<1>4. \A s \in Students : db.teacher[s] \in Users \cup {Nobody}
  BY DatabaseFields
<1>5. \A u \in Users, s \in Students :
        <<u, s>> \in e.link => \/ <<u, s>> \in db.link
                               \/ u = q.u /\ s \in db.students
  BY <1>1, <1>2, <1>3
<1> QED
  BY <1>2, <1>4, <1>5 DEF ReferencesHold

LEMMA WithoutUserRefers ==
  ASSUME db \in Database, ReferencesHold(db), NEW u \in Users
  PROVE  ReferencesHold(WithoutUser(u))
<1> DEFINE e == WithoutUser(u)
<1>1. /\ e.students = db.students
      /\ e.link = db.link \ ({u} \X Students)
      /\ \A s \in Students : e.teacher[s] = IF db.teacher[s] = u THEN Nobody ELSE db.teacher[s]
  BY WithoutUserIs
<1>2. \A x \in Users : x # u => e.user[x] = db.user[x]
  BY WithoutUserIs, DatabaseFields
<1>3. \A s \in Students : db.teacher[s] \in Users \cup {Nobody}
  BY DatabaseFields
<1> HIDE DEF e
<1>4. ReferencesHold(e)
  BY <1>1, <1>2, <1>3 DEF ReferencesHold
<1> QED
  BY <1>4 DEF e

LEMMA SavedRefers ==
  ASSUME db \in Database, ReferencesHold(db), NEW q \in Saving, NEW d \in Saved(q)
  PROVE  ReferencesHold(LinkedAccounts(q, d))
<1> DEFINE e == LinkedAccounts(q, d)
<1>1. /\ d \in Database /\ d.user = db.user /\ d.students = db.students \cup {q.s}
      /\ d.link = db.link
      /\ q.teacher = Nobody \/ db.user[q.teacher].exists
  BY SavedIs
<1>2. \A s \in Students : d.teacher[s] \in {db.teacher[s], q.teacher}
  <2>1. /\ d.teacher = [db.teacher EXCEPT ![q.s] = IF q.op = "create" \/ q.moved
                                                    THEN q.teacher ELSE @]
        /\ db.teacher \in [Students -> Users \cup {Nobody}]
    BY SavedIs, DatabaseFields
  <2> QED
    BY <2>1
<1>3. /\ e.students = d.students /\ e.teacher = d.teacher
      /\ e.link = d.link \cup (NewlyListed(q, d) \X {q.s})
      /\ \A u \in Users : e.user[u].exists = d.user[u].exists
  <2>1. /\ e.students = d.students /\ e.teacher = d.teacher
        /\ e.link = d.link \cup (NewlyListed(q, d) \X {q.s})
    BY <1>1, LinkedAccountsIs
  <2>2. \A u \in Users : e.user[u].exists = d.user[u].exists
    BY <1>1, LinkedAccountsRow
  <2> QED
    BY <2>1, <2>2
<1>4. \A p \in NewlyListed(q, d) : d.user[p].exists
  BY DEF NewlyListed, Is
<1>5. /\ q.s \in Students /\ q.teacher \in Users \cup {Nobody}
      /\ \A s \in Students : db.teacher[s] \in Users \cup {Nobody}
  BY DatabaseFields DEF Saving
<1> HIDE DEF e
<1>6. ReferencesHold(e)
  BY <1>1, <1>2, <1>3, <1>4, <1>5 DEF ReferencesHold
<1> QED
  BY <1>6 DEF e

LEMMA WithoutStudentRefers ==
  ASSUME db \in Database, ReferencesHold(db), NEW s \in Students
  PROVE  ReferencesHold(WithoutStudent(s))
<1> DEFINE e == WithoutStudent(s)
<1>1. /\ e.students = db.students \ {s} /\ e.user = db.user
      /\ e.link = db.link \ (Users \X {s})
      /\ \A x \in Students : e.teacher[x] \in {db.teacher[x], Nobody}
  <2>1. /\ e.students = db.students \ {s} /\ e.user = db.user
        /\ e.link = db.link \ (Users \X {s})
        /\ e.teacher = [db.teacher EXCEPT ![s] = Nobody]
    BY WithoutStudentIs
  <2> QED
    BY <2>1, DatabaseFields
<1> HIDE DEF e
<1>2. ReferencesHold(e)
  BY <1>1 DEF ReferencesHold
<1> QED
  BY <1>2 DEF e

LEMMA DeactivatedRefers ==
  ASSUME db \in Database, ReferencesHold(db), NEW parents
  PROVE  ReferencesHold(Deactivated(parents))
<1> DEFINE e == Deactivated(parents)
<1>1. /\ e.students = db.students /\ e.teacher = db.teacher /\ e.link = db.link
      /\ \A u \in Users : e.user[u].exists = db.user[u].exists
  BY DeactivatedIs
<1>2. \A s \in Students : db.teacher[s] \in Users \cup {Nobody}
  BY DatabaseFields
<1> HIDE DEF e
<1>3. ReferencesHold(e)
  BY <1>1, <1>2 DEF ReferencesHold
<1> QED
  BY <1>3 DEF e

\* One of the ways the database may change in a step.
DatabaseStep(r) ==
  \/ req[r] \in Registering /\ req[r].op = "register" /\ db' \in Registered(req[r])
  \/ req[r] \in Updating /\ req[r].op = "update" /\ db' \in Updated(req[r])
  \/ /\ req[r] \in DeletingUser /\ req[r].op = "delete_user"
     /\ req[r].u \in Users /\ db' = WithoutUser(req[r].u)
  \/ /\ req[r] \in Saving
     /\ \E d \in Saved(req[r]) : ParentsAreAt(req[r], d) /\ db' = LinkedAccounts(req[r], d)
  \/ /\ req[r] \in DeletingStudent /\ req[r].op = "delete_student"
     /\ req[r].s \in Students /\ db' = WithoutStudent(req[r].s)
  \/ /\ req[r] \in DeletingStudent /\ req[r].op = "deactivate"
     /\ db' = Deactivated(req[r].parents)

LEMMA DatabaseSteps ==
  ASSUME TypeOK, [Next]_vars
  PROVE  \/ db' = db
         \/ \E r \in Requests : r \in Stepping /\ DatabaseStep(r)
<1>1. CASE UNCHANGED vars
  BY <1>1 DEF vars
<1>2. ASSUME NEW r \in Requests, Arrives(r)
      PROVE  db' = db
  BY <1>2, ArrivalReads
<1>3. ASSUME NEW r \in Requests, AccountCommits(r)
      PROVE  DatabaseStep(r)
  BY <1>3, AccountCommitsIs DEF DatabaseStep, Commit, DeletingUser
<1>4. ASSUME NEW r \in Requests, StudentCommits(r)
      PROVE  DatabaseStep(r)
  BY <1>4, StudentCommitsIs DEF DatabaseStep, Commit
<1>5. ASSUME NEW r \in Requests, StudentDeleted(r)
      PROVE  DatabaseStep(r)
  BY <1>5, StudentDeletedIs DEF DatabaseStep, Commit, DeletingStudent
<1>6. ASSUME NEW r \in Requests, ParentsDeactivated(r)
      PROVE  DatabaseStep(r)
  BY <1>6, ParentsDeactivatedIs DEF DatabaseStep, Commit
<1>7. ASSUME NEW r \in Requests, DeactivationFails(r) \/ Refuse(r)
      PROVE  db' = db
  BY <1>7 DEF DeactivationFails, Refuse
<1>8. ASSUME NEW r \in Requests, req[r].op # "none", Done(r)
      PROVE  r \in Stepping
  BY <1>8 DEF Stepping, Done, Idle, TypeOK
<1>9. ASSUME NEW r \in Requests, StudentDeleted(r)
      PROVE  r \in Stepping
  <2>1. req'[r] = [req[r] EXCEPT !.op = "deactivate"] /\ req[r].op = "delete_student"
    BY <1>9, StudentDeletedIs DEF TypeOK
  <2>2. req[r] \in DeletingStudent
    BY <1>9, StudentDeletedIs
  <2>3. req'[r].op = "deactivate"
    BY <2>1, <2>2 DEF DeletingStudent
  <2>4. req[r] # Idle
    BY <2>1 DEF Idle
  <2>5. req'[r] # req[r]
    BY <2>1, <2>3, "deactivate" # "delete_student", Zenon
  <2> QED
    BY <2>4, <2>5 DEF Stepping
<1>10. ASSUME NEW r \in Requests, AccountCommits(r) \/ StudentCommits(r) \/ ParentsDeactivated(r)
       PROVE  r \in Stepping
  <2>1. Done(r) /\ req[r].op # "none"
    BY <1>10 DEF AccountCommits, StudentCommits, ParentsDeactivated
  <2> QED
    BY <1>8, <2>1
<1> QED
  BY <1>1, <1>2, <1>3, <1>4, <1>5, <1>6, <1>7, <1>9, <1>10 DEF Next, Goes

LEMMA ReferencesKept ==
  ASSUME TypeOK, ReferencesHold(db), [Next]_vars
  PROVE  ReferencesHold(db')
<1>1. db \in Database
  BY DEF TypeOK
<1>2. CASE db' = db
  BY <1>2
<1>3. ASSUME NEW r \in Requests, DatabaseStep(r)
      PROVE  ReferencesHold(db')
  BY <1>1, <1>3, RegisteredRefers, UpdatedRefers, WithoutUserRefers, SavedRefers,
     WithoutStudentRefers, DeactivatedRefers DEF DatabaseStep
<1> QED
  BY <1>2, <1>3, DatabaseSteps

----------------------------------------------------------------------------
(* A request nobody has overtaken relies on what is so *)

Current ==
  \A r \in Requests : req[r] # Idle /\ r \notin late => Reads(db, req[r])

LEMMA NothingToRely ==
  ASSUME NEW d, NEW q, q.op = "deactivate"
  PROVE  Reads(d, q)
BY DEF Reads

LEMMA CommitKeepsCurrent ==
  ASSUME TypeOK, Current, NEW r \in Requests, NEW e, Commit(r, e),
         NEW x, req' = [req EXCEPT ![r] = x], x = Idle \/ x.op = "deactivate"
  PROVE  Current'
<1>1. /\ db' = e /\ req \in [Requests -> Request]
      /\ late' = (late \cup {q \in Requests : e # db /\ req[q] # Idle}) \ {r}
  BY DEF Commit, TypeOK
<1> SUFFICES ASSUME NEW q \in Requests, req'[q] # Idle, q \notin late'
             PROVE  Reads(db', req'[q])
  BY DEF Current
<1>2. CASE q = r
  BY <1>1, <1>2, NothingToRely
<1>3. CASE q # r
  <2>1. req'[q] = req[q] /\ q \notin late /\ db' = db
    BY <1>1, <1>3
  <2>2. Reads(db, req[q])
    BY <2>1 DEF Current
  <2> QED
    BY <2>1, <2>2
<1> QED
  BY <1>2, <1>3

LEMMA EndKeepsCurrent ==
  ASSUME TypeOK, Current, NEW r \in Requests, Done(r), late' = late \ {r}, db' = db
  PROVE  Current'
<1> SUFFICES ASSUME NEW q \in Requests, req'[q] # Idle, q \notin late'
             PROVE  Reads(db', req'[q])
  BY DEF Current
<1>1. q # r /\ req'[q] = req[q]
  BY DEF Done, TypeOK
<1>2. Reads(db, req[q])
  BY <1>1 DEF Current
<1> QED
  BY <1>1, <1>2

LEMMA CurrentKept ==
  ASSUME TypeOK, Current, [Next]_vars
  PROVE  Current'
<1>1. CASE UNCHANGED vars
  BY <1>1 DEF vars, history, Current
<1>2. ASSUME NEW r \in Requests, Arrives(r)
      PROVE  Current'
  <2>1. PICK x \in Request : req' = [req EXCEPT ![r] = x] /\ Reads(db, x)
    BY <1>2, ArrivalReads
  <2>2. late' = late \ {r} /\ db' = db
    BY <1>2, ArrivalReads
  <2> SUFFICES ASSUME NEW q \in Requests, req'[q] # Idle, q \notin late'
               PROVE  Reads(db', req'[q])
    BY DEF Current
  <2>3. CASE q = r
    BY <2>1, <2>2, <2>3 DEF TypeOK
  <2>4. CASE q # r
    <3>1. req'[q] = req[q] /\ q \notin late
      BY <2>1, <2>2, <2>4 DEF TypeOK
    <3>2. Reads(db, req[q])
      BY <3>1 DEF Current
    <3> QED
      BY <2>2, <3>1, <3>2
  <2> QED
    BY <2>3, <2>4
<1>3. ASSUME NEW r \in Requests, NEW e, Commit(r, e), Done(r)
      PROVE  Current'
  BY <1>3, CommitKeepsCurrent DEF Done
<1>4. ASSUME NEW r \in Requests, AccountCommits(r)
      PROVE  Current'
  BY <1>3, <1>4 DEF AccountCommits
<1>5. ASSUME NEW r \in Requests, StudentCommits(r) \/ ParentsDeactivated(r)
      PROVE  Current'
  BY <1>3, <1>5, StudentCommitsIs, ParentsDeactivatedIs
<1>6. ASSUME NEW r \in Requests, StudentDeleted(r)
      PROVE  Current'
  <2>1. /\ req[r] \in DeletingStudent
        /\ Commit(r, WithoutStudent(req[r].s))
        /\ req' = [req EXCEPT ![r] = [req[r] EXCEPT !.op = "deactivate"]]
    BY <1>6, StudentDeletedIs
  <2>2. [req[r] EXCEPT !.op = "deactivate"].op = "deactivate"
    BY <2>1 DEF DeletingStudent
  <2> QED
    BY <2>1, <2>2, CommitKeepsCurrent
<1>7. ASSUME NEW r \in Requests, DeactivationFails(r)
      PROVE  Current'
  BY <1>7, DeactivationFailsIs, EndKeepsCurrent
<1>8. ASSUME NEW r \in Requests, Refuse(r)
      PROVE  Current'
  BY <1>8, EndKeepsCurrent DEF Refuse
<1> QED
  BY <1>1, <1>2, <1>4, <1>5, <1>6, <1>7, <1>8 DEF Next, Goes

Inv ==
  /\ TypeOK
  /\ ReferencesHold(db)
  /\ Current

LEMMA InvHolds == Spec => []Inv
<1>1. Init => Inv
  <2>1. SUFFICES ASSUME Init PROVE Inv
    OBVIOUS
  <2>2. ReferencesHold(db)
    BY <2>1, StartAssumption DEF Init
  <2>3. \A r \in Requests : req[r] = Idle
    BY <2>1 DEF Init
  <2>4. TypeOK
    BY <2>1, FamiliesAssumption, StartAssumption, IdleIsRequest DEF Init, TypeOK
  <2> QED
    BY <2>2, <2>3, <2>4 DEF Inv, Current
<1>2. Inv /\ [Next]_vars => Inv'
  <2>1. SUFFICES ASSUME Inv, [Next]_vars PROVE Inv'
    OBVIOUS
  <2>2. TypeOK'
    BY <2>1, DatabaseKept, RequestsKept, HistoryKept DEF Inv, TypeOK
  <2>3. ReferencesHold(db')
    BY <2>1, ReferencesKept DEF Inv
  <2>4. Current'
    BY <2>1, CurrentKept DEF Inv
  <2> QED
    BY <2>2, <2>3, <2>4 DEF Inv
<1> QED
  BY <1>1, <1>2, PTL DEF Spec

----------------------------------------------------------------------------
(* The last Admin *)

\* In a step in which r deletes, or saves, the Admins who can sign in stay or it is late.
LEMMA AdminsLeft ==
  ASSUME Inv, NEW r \in Requests, DatabaseStep(r), req[r].op # "update", r \notin late,
         Active(db, "Admin") # {}
  PROVE  Active(db', "Admin") # {}
<1> USE DEF Inv
<1>1. db \in Database /\ req[r] \in Request
  BY DEF TypeOK
<1>2. PICK a \in Users : a \in Active(db, "Admin")
  BY DEF Active
<1>3. db.user[a].exists /\ db.user[a].role = "Admin" /\ db.user[a].isActive
  BY <1>2 DEF Active, Is
<1>4. CASE req[r] \in Registering /\ req[r].op = "register" /\ db' \in Registered(req[r])
  <2>1. /\ db'.user = [db.user EXCEPT ![req[r].u] =
                         [exists |-> TRUE, role |-> req[r].role,
                          center |-> req[r].center, isActive |-> TRUE]]
        /\ ~db.user[req[r].u].exists
    BY <1>1, <1>4, RegisteredIs
  <2>2. db'.user[a] = db.user[a]
    BY <1>1, <1>3, <2>1, DatabaseFields
  <2> QED
    BY <1>3, <2>2 DEF Active, Is
<1>5. CASE /\ req[r] \in DeletingUser /\ req[r].op = "delete_user"
           /\ req[r].u \in Users /\ db' = WithoutUser(req[r].u)
  <2>1. Reads(db, req[r])
    BY <1>5 DEF Current, Idle
  <2>2. PICK b \in Active(db, "Admin") : b # req[r].u
    BY <1>5, <2>1 DEF Reads
  <2>3. db'.user = [db.user EXCEPT ![req[r].u] = NoUser]
    BY <1>1, <1>5, WithoutUserIs
  <2>4. b \in Users /\ db'.user[b] = db.user[b]
    BY <1>1, <2>2, <2>3, DatabaseFields DEF Active
  <2> QED
    BY <2>2, <2>4 DEF Active, Is
<1>6. CASE /\ req[r] \in Saving
           /\ \E d \in Saved(req[r]) :
                ParentsAreAt(req[r], d) /\ db' = LinkedAccounts(req[r], d)
  <2>1. PICK d \in Saved(req[r]) : db' = LinkedAccounts(req[r], d)
    BY <1>6
  <2>2. d \in Database /\ d.user = db.user
    BY <1>1, <1>6, SavedIs
  <2>3. /\ db'.user[a].exists = d.user[a].exists
        /\ db'.user[a].role = d.user[a].role
        /\ db'.user[a].isActive = (d.user[a].isActive \/ a \in NewlyListed(req[r], d))
    BY <1>6, <2>1, <2>2, LinkedAccountsRow
  <2> QED
    BY <1>3, <2>2, <2>3 DEF Active, Is
<1>7. CASE /\ req[r] \in DeletingStudent /\ req[r].op = "delete_student"
           /\ req[r].s \in Students /\ db' = WithoutStudent(req[r].s)
  <2>1. db'.user = db.user
    BY <1>1, <1>7, WithoutStudentIs
  <2> QED
    BY <1>3, <2>1 DEF Active, Is
<1>8. CASE /\ req[r] \in DeletingStudent /\ req[r].op = "deactivate"
           /\ db' = Deactivated(req[r].parents)
  <2>1. a \notin Childless(req[r].parents)
    BY <1>3 DEF Childless, Is
  <2>2. /\ db'.user[a].exists = db.user[a].exists
        /\ db'.user[a].role = db.user[a].role
        /\ db'.user[a].isActive = (db.user[a].isActive /\ a \notin Childless(req[r].parents))
    BY <1>1, <1>8, DeactivatedIs
  <2> QED
    BY <1>3, <2>1, <2>2 DEF Active, Is
<1> QED
  BY <1>4, <1>5, <1>6, <1>7, <1>8 DEF DatabaseStep

\* Deleting accounts leaves an Admin who can sign in, unless by a request that others
\* have overtaken or by a change of role: deleteMyAccount counts, deleteUser is asked
\* for by somebody else.
THEOREM LastAdminIsKept == Spec => LastAdminStays
<1>1. Inv /\ [Next]_vars =>
        [Active(db, "Admin") # {} /\ Active(db, "Admin")' = {} =>
           \E r \in Stepping : r \in late \/ req[r].op = "update"]_vars
  <2> SUFFICES ASSUME Inv, [Next]_vars,
                      Active(db, "Admin") # {}, Active(db', "Admin") = {}
               PROVE  \E r \in Stepping : r \in late \/ req[r].op = "update"
    OBVIOUS
  <2>1. PICK r \in Requests : r \in Stepping /\ DatabaseStep(r)
    BY DatabaseSteps DEF Inv
  <2> QED
    BY <2>1, AdminsLeft
<1> QED
  BY <1>1, InvHolds, PTL DEF Spec, LastAdminStays

----------------------------------------------------------------------------
(* Accounts and children *)

\* Children, and the account does not work; or it works without one.
Stuck(d, u) == ~d.user[u].isActive /\ Kids(d, u) # {}
Childfree(d, u) == Is(d, u, "Parent") /\ d.user[u].isActive /\ Kids(d, u) = {}

LEMMA KidsIs ==
  ASSUME NEW d, NEW u
  PROVE  \A s \in Students : s \in Kids(d, u) <=> <<u, s>> \in d.link
BY DEF Kids

LEMMA KidsAreStudents ==
  ASSUME NEW d, NEW u
  PROVE  Kids(d, u) \subseteq Students
BY DEF Kids

\* An account with the same row and no other links is as it was.
LEMMA SameAccount ==
  ASSUME NEW d, NEW e, NEW u,
         e.user[u].exists = d.user[u].exists, e.user[u].role = d.user[u].role,
         e.user[u].isActive = d.user[u].isActive,
         \A s \in Students : <<u, s>> \in e.link <=> <<u, s>> \in d.link
  PROVE  (Stuck(e, u) <=> Stuck(d, u)) /\ (Childfree(e, u) <=> Childfree(d, u))
<1>1. Kids(e, u) = Kids(d, u)
  BY DEF Kids
<1> QED
  BY <1>1 DEF Stuck, Childfree, Is

LEMMA RegisteredAccounts ==
  ASSUME db \in Database, NEW q \in Registering, NEW e \in Registered(q), NEW u \in Users
  PROVE  (Stuck(e, u) => Stuck(db, u)) /\ (Childfree(e, u) => Childfree(db, u))
<1>1. PICK found \in SUBSET Students : e.link = db.link \cup ({q.u} \X (q.kids \cup found))
  BY RegisteredIs
<1>2. /\ e.user = [db.user EXCEPT ![q.u] = [exists |-> TRUE, role |-> q.role,
                                           center |-> q.center, isActive |-> TRUE]]
      /\ q.role = "Parent" => Kids(e, q.u) # {}
  BY RegisteredIs
<1>3. db.user \in [Users -> User]
  BY DatabaseFields
<1>4. CASE u # q.u
  <2>1. e.user[u] = db.user[u]
    BY <1>2, <1>3, <1>4
  <2>2. \A s \in Students : <<u, s>> \in e.link <=> <<u, s>> \in db.link
    BY <1>1, <1>4
  <2> QED
    BY <2>1, <2>2, SameAccount
<1>5. CASE u = q.u
  <2>1. e.user[u].isActive /\ e.user[u].role = q.role
    BY <1>2, <1>3, <1>5
  <2> QED
    BY <1>2, <1>5, <2>1 DEF Stuck, Childfree, Is
<1> QED
  BY <1>4, <1>5

LEMMA UpdatedAccounts ==
  ASSUME db \in Database, NEW q \in Updating, NEW e \in Updated(q), NEW u \in Users
  PROVE  /\ Stuck(e, u) => \/ Stuck(db, u)
                           \/ /\ u = q.u /\ e.link # Rewritten(q).link
                              /\ ~e.user[q.u].isActive
         /\ Childfree(e, u) => Childfree(db, u)
<1>1. PICK found \in SUBSET Students : e.link = Rewritten(q).link \cup ({q.u} \X found)
  BY UpdatedIs
<1>2. /\ \A x \in Users : /\ e.user[x].exists = db.user[x].exists
                          /\ x # q.u => /\ e.user[x].role = db.user[x].role
                                        /\ e.user[x].isActive = db.user[x].isActive
      /\ e.user[q.u].role = q.role
      /\ e.user[q.u].isActive = (db.user[q.u].isActive \/ q.kids # {})
      /\ LinksAreRight(q, e)
  BY UpdatedIs
<1>3. Rewritten(q).link = (db.link \ ({q.u} \X Dropped(q))) \cup ({q.u} \X q.kids)
  BY RewrittenIs
<1>4. CASE u # q.u
  <2>1. \A s \in Students : <<u, s>> \in e.link <=> <<u, s>> \in db.link
    BY <1>1, <1>3, <1>4
  <2>2. /\ e.user[u].exists = db.user[u].exists /\ e.user[u].role = db.user[u].role
        /\ e.user[u].isActive = db.user[u].isActive
    BY <1>2, <1>4
  <2> QED
    BY <2>1, <2>2, SameAccount
<1>5. CASE u = q.u
  <2>1. ~Childfree(e, u)
    BY <1>2, <1>5 DEF Childfree, Is, LinksAreRight
  <2>2. ASSUME Stuck(e, u), e.link = Rewritten(q).link
        PROVE  Stuck(db, u)
    <3>1. ~e.user[q.u].isActive
      BY <1>5, <2>2 DEF Stuck
    <3>2. q.kids = {} /\ ~db.user[u].isActive
      BY <1>2, <1>5, <3>1
    <3>3. PICK s \in Students : <<u, s>> \in e.link
      BY <2>2 DEF Stuck, Kids
    <3>4. <<u, s>> \in db.link
      BY <1>3, <2>2, <3>2, <3>3
    <3> QED
      BY <3>2, <3>4 DEF Stuck, Kids
  <2> QED
    BY <1>5, <2>1, <2>2 DEF Stuck
<1> QED
  BY <1>4, <1>5

LEMMA WithoutUserAccounts ==
  ASSUME db \in Database, NEW x \in Users, NEW u \in Users
  PROVE  LET e == WithoutUser(x) IN
         (Stuck(e, u) => Stuck(db, u)) /\ (Childfree(e, u) => Childfree(db, u))
<1> DEFINE e == WithoutUser(x)
<1>1. e.user = [db.user EXCEPT ![x] = NoUser] /\ e.link = db.link \ ({x} \X Students)
  BY WithoutUserIs
<1>2. db.user \in [Users -> User]
  BY DatabaseFields
<1> HIDE DEF e
<1>3. CASE u # x
  <2>1. e.user[u] = db.user[u]
    BY <1>1, <1>2, <1>3
  <2>2. \A s \in Students : <<u, s>> \in e.link <=> <<u, s>> \in db.link
    BY <1>1, <1>3
  <2>3. (Stuck(e, u) => Stuck(db, u)) /\ (Childfree(e, u) => Childfree(db, u))
    BY <2>1, <2>2, SameAccount
  <2> QED
    BY <2>3 DEF e
<1>4. CASE u = x
  <2>1. e.user[u] = NoUser /\ \A s \in Students : <<u, s>> \notin e.link
    BY <1>1, <1>2, <1>4
  <2>2. Kids(e, u) = {} /\ ~Is(e, u, "Parent")
    BY <2>1 DEF Kids, Is, NoUser
  <2>3. ~Stuck(e, u) /\ ~Childfree(e, u)
    BY <2>2 DEF Stuck, Childfree
  <2> QED
    BY <2>3 DEF e
<1> QED
  BY <1>3, <1>4

LEMMA SavedAccounts ==
  ASSUME db \in Database, NEW q \in Saving, NEW d \in Saved(q), NEW u \in Users
  PROVE  LET e == LinkedAccounts(q, d) IN
         (Stuck(e, u) => Stuck(db, u)) /\ (Childfree(e, u) => Childfree(db, u))
<1> DEFINE e == LinkedAccounts(q, d)
<1>1. d \in Database /\ d.user = db.user /\ d.link = db.link
  BY SavedIs
<1>2. e.link = d.link \cup (NewlyListed(q, d) \X {q.s})
  BY <1>1, LinkedAccountsIs
<1>3. /\ e.user[u].exists = d.user[u].exists
      /\ e.user[u].role = d.user[u].role
      /\ e.user[u].isActive = (d.user[u].isActive \/ u \in NewlyListed(q, d))
  BY <1>1, LinkedAccountsRow
<1>4. q.s \in Students /\ d.user[u].isActive \in BOOLEAN
  BY <1>1, UserFields DEF Saving
<1> HIDE DEF e
<1>5. CASE u \notin NewlyListed(q, d)
  <2>1. \A s \in Students : <<u, s>> \in e.link <=> <<u, s>> \in db.link
    BY <1>1, <1>2, <1>5
  <2>2. (Stuck(e, u) => Stuck(db, u)) /\ (Childfree(e, u) => Childfree(db, u))
    BY <1>1, <1>3, <1>4, <1>5, <2>1, SameAccount
  <2> QED
    BY <2>2 DEF e
<1>6. CASE u \in NewlyListed(q, d)
  <2>1. <<u, q.s>> \in e.link /\ e.user[u].isActive
    BY <1>2, <1>3, <1>6
  <2>2. ~Stuck(e, u) /\ ~Childfree(e, u)
    BY <1>4, <2>1 DEF Stuck, Childfree, Kids
  <2> QED
    BY <2>2 DEF e
<1> QED
  BY <1>5, <1>6

LEMMA WithoutStudentAccounts ==
  ASSUME db \in Database, NEW s \in Students, NEW u \in Users
  PROVE  LET e == WithoutStudent(s) IN
         /\ Stuck(e, u) => Stuck(db, u)
         /\ Childfree(e, u) => Childfree(db, u) \/ u \in ParentsOf(db, s)
<1> DEFINE e == WithoutStudent(s)
<1>1. e.user = db.user /\ e.link = db.link \ (Users \X {s})
  BY WithoutStudentIs
<1> HIDE DEF e
<1>2. /\ Stuck(e, u) => Stuck(db, u)
      /\ Childfree(e, u) => Childfree(db, u) \/ u \in ParentsOf(db, s)
  <2>1. Kids(e, u) = Kids(db, u) \ {s}
    BY <1>1 DEF Kids
  <2>2. u \notin ParentsOf(db, s) => s \notin Kids(db, u)
    BY DEF ParentsOf, Kids
  <2> QED
    BY <1>1, <2>1, <2>2 DEF Stuck, Childfree, Is
<1> QED
  BY <1>2 DEF e

LEMMA DeactivatedAccounts ==
  ASSUME db \in Database, NEW parents, NEW u \in Users
  PROVE  LET e == Deactivated(parents) IN
         /\ Stuck(e, u) => Stuck(db, u)
         /\ Childfree(e, u) => Childfree(db, u) /\ u \notin parents
<1> DEFINE e == Deactivated(parents)
<1>1. /\ e.link = db.link
      /\ e.user[u].exists = db.user[u].exists
      /\ e.user[u].role = db.user[u].role
      /\ e.user[u].isActive = (db.user[u].isActive /\ u \notin Childless(parents))
  BY DeactivatedIs
<1>2. Kids(e, u) = Kids(db, u)
  BY <1>1 DEF Kids
<1>3. u \in Childless(parents) <=>
        /\ u \in parents /\ Is(db, u, "Parent") /\ db.user[u].isActive /\ Kids(db, u) = {}
  BY DEF Childless
<1> HIDE DEF e
<1>4. /\ Stuck(e, u) => Stuck(db, u)
      /\ Childfree(e, u) => Childfree(db, u) /\ u \notin parents
  BY <1>1, <1>2, <1>3 DEF Stuck, Childfree, Is
<1> QED
  BY <1>4 DEF e

\* A deletion is about to disable p, or did not reach p.
Excused(p) ==
  p \in missed \/ \E r \in Requests : req[r].op = "deactivate" /\ p \in req[r].parents

Accounts ==
  \A u \in Users : /\ Stuck(db, u) => u \in matched
                   /\ Childfree(db, u) => Excused(u)

\* An excuse goes only with the statement that disables the account.
LEMMA ExcuseStays ==
  ASSUME TypeOK, NEW p, Excused(p), missed \subseteq missed', NEW r \in Requests,
         NEW x, req' = [req EXCEPT ![r] = x],
         req[r].op = "deactivate" => p \notin req[r].parents \/ p \in missed'
  PROVE  Excused(p)'
<1>1. req \in [Requests -> Request]
  BY DEF TypeOK
<1>2. CASE p \in missed
  BY <1>2 DEF Excused
<1>3. CASE \E q \in Requests : req[q].op = "deactivate" /\ p \in req[q].parents
  <2>1. PICK q \in Requests : req[q].op = "deactivate" /\ p \in req[q].parents
    BY <1>3
  <2>2. CASE q = r
    BY <2>1, <2>2 DEF Excused
  <2>3. CASE q # r
    <3>1. req'[q] = req[q]
      BY <1>1, <2>3
    <3> QED
      BY <2>1, <3>1 DEF Excused
  <2> QED
    BY <2>2, <2>3
<1> QED
  BY <1>2, <1>3 DEF Excused

LEMMA AccountsKept ==
  ASSUME Inv, Accounts, [Next]_vars
  PROVE  Accounts'
<1>1. db \in Database /\ TypeOK /\ req \in [Requests -> Request]
  BY DEF Inv, TypeOK
<1>2. CASE UNCHANGED vars
  BY <1>2 DEF vars, history, Accounts, Excused
<1>3. ASSUME NEW r \in Requests, NEW x, req' = [req EXCEPT ![r] = x],
             req[r].op # "deactivate", missed' = missed, matched \subseteq matched',
             \A u \in Users : /\ Stuck(db', u) => Stuck(db, u) \/ u \in matched'
                              /\ Childfree(db', u) => Childfree(db, u)
      PROVE  Accounts'
  <2> SUFFICES ASSUME NEW u \in Users
               PROVE  /\ Stuck(db', u) => u \in matched'
                      /\ Childfree(db', u) => Excused(u)'
    BY DEF Accounts
  <2>1. Stuck(db', u) => u \in matched'
    BY <1>3 DEF Accounts
  <2>2. ASSUME Childfree(db', u) PROVE Excused(u)'
    <3>1. Excused(u)
      BY <1>3, <2>2 DEF Accounts
    <3> QED
      BY <1>1, <1>3, <3>1, ExcuseStays
  <2> QED
    BY <2>1, <2>2
<1>4. ASSUME NEW r \in Requests, Arrives(r)
      PROVE  Accounts'
  <2>1. req[r].op # "deactivate"
    BY <1>1, <1>4, ArrivalReads DEF Idle
  <2>2. PICK x \in Request : req' = [req EXCEPT ![r] = x]
    BY <1>1, <1>4, ArrivalReads
  <2>3. db' = db /\ missed' = missed /\ matched' = matched
    BY <1>1, <1>4, ArrivalReads
  <2> QED
    BY <1>3, <2>1, <2>2, <2>3
<1>5. ASSUME NEW r \in Requests, AccountCommits(r)
      PROVE  Accounts'
  <2>1. /\ req' = [req EXCEPT ![r] = Idle] /\ missed' = missed /\ matched \subseteq matched'
        /\ req[r].op # "deactivate"
    BY <1>1, <1>5, AccountCommitsIs DEF Done, AccountCommits
  <2>2. ASSUME NEW u \in Users
        PROVE  /\ Stuck(db', u) => Stuck(db, u) \/ u \in matched'
               /\ Childfree(db', u) => Childfree(db, u)
    <3>1. ASSUME NEW e \in Registered(req[r]), req[r] \in Registering, Commit(r, e)
          PROVE  /\ Stuck(db', u) => Stuck(db, u) \/ u \in matched'
                 /\ Childfree(db', u) => Childfree(db, u)
      <4>1. db' = e
        BY <3>1 DEF Commit
      <4> QED
        BY <1>1, <3>1, <4>1, RegisteredAccounts
    <3>2. ASSUME NEW e \in Updated(req[r]), req[r] \in Updating, Commit(r, e),
                 matched' = IF e.link # Rewritten(req[r]).link
                                 /\ ~e.user[req[r].u].isActive
                            THEN matched \cup {req[r].u} ELSE matched
          PROVE  /\ Stuck(db', u) => Stuck(db, u) \/ u \in matched'
                 /\ Childfree(db', u) => Childfree(db, u)
      <4>1. db' = e
        BY <3>2 DEF Commit
      <4>2. Stuck(e, u) => \/ Stuck(db, u)
                           \/ /\ u = req[r].u /\ e.link # Rewritten(req[r]).link
                              /\ ~e.user[req[r].u].isActive
        BY <1>1, <3>2, UpdatedAccounts
      <4>3. Childfree(e, u) => Childfree(db, u)
        BY <1>1, <3>2, UpdatedAccounts
      <4> QED
        BY <3>2, <4>1, <4>2, <4>3
    <3>3. ASSUME req[r] \in DeletingUser, Commit(r, WithoutUser(req[r].u))
          PROVE  /\ Stuck(db', u) => Stuck(db, u) \/ u \in matched'
                 /\ Childfree(db', u) => Childfree(db, u)
      <4>1. db' = WithoutUser(req[r].u) /\ req[r].u \in Users
        BY <3>3 DEF Commit, DeletingUser
      <4> QED
        BY <1>1, <4>1, WithoutUserAccounts
    <3> QED
      BY <1>1, <1>5, <3>1, <3>2, <3>3, AccountCommitsIs
  <2> QED
    BY <1>3, <2>1, <2>2
<1>6. ASSUME NEW r \in Requests, StudentCommits(r)
      PROVE  Accounts'
  <2>1. PICK d \in Saved(req[r]) : Commit(r, LinkedAccounts(req[r], d))
    BY <1>1, <1>6, StudentCommitsIs
  <2>2. /\ req' = [req EXCEPT ![r] = Idle] /\ missed' = missed /\ matched' = matched
        /\ req[r].op # "deactivate" /\ req[r] \in Saving
    BY <1>1, <1>6, StudentCommitsIs DEF Done, StudentCommits
  <2>3. db' = LinkedAccounts(req[r], d)
    BY <2>1 DEF Commit
  <2>4. ASSUME NEW u \in Users
        PROVE  /\ Stuck(db', u) => Stuck(db, u)
               /\ Childfree(db', u) => Childfree(db, u)
    BY <1>1, <2>1, <2>2, <2>3, SavedAccounts
  <2> QED
    BY <1>3, <2>2, <2>4
<1>7. ASSUME NEW r \in Requests, StudentDeleted(r)
      PROVE  Accounts'
  <2>1. /\ req[r] \in DeletingStudent /\ req[r].op = "delete_student"
        /\ req' = [req EXCEPT ![r] = [req[r] EXCEPT !.op = "deactivate"]]
        /\ missed' = missed \cup (ParentsOf(db, req[r].s) \ req[r].parents)
        /\ matched' = matched
    BY <1>1, <1>7, StudentDeletedIs
  <2>2. db' = WithoutStudent(req[r].s) /\ req[r].s \in Students
    BY <1>1, <1>7, <2>1, StudentDeletedIs DEF Commit, DeletingStudent
  <2> SUFFICES ASSUME NEW u \in Users
               PROVE  /\ Stuck(db', u) => u \in matched'
                      /\ Childfree(db', u) => Excused(u)'
    BY DEF Accounts
  <2>3. /\ Stuck(db', u) => Stuck(db, u)
        /\ Childfree(db', u) => Childfree(db, u) \/ u \in ParentsOf(db, req[r].s)
    BY <1>1, <2>2, WithoutStudentAccounts
  <2>4. Stuck(db', u) => u \in matched'
    BY <2>1, <2>3 DEF Accounts
  <2>5. ASSUME Childfree(db, u) PROVE Excused(u)'
    <3>1. Excused(u)
      BY <2>5 DEF Accounts
    <3>2. missed \subseteq missed'
      BY <2>1
    <3> QED
      BY <1>1, <2>1, <3>1, <3>2, ExcuseStays
  <2>6. ASSUME u \in ParentsOf(db, req[r].s) PROVE Excused(u)'
    <3>1. CASE u \in req[r].parents
      <4>1. req'[r] = [req[r] EXCEPT !.op = "deactivate"]
        BY <1>1, <2>1
      <4>2. req'[r].op = "deactivate" /\ req'[r].parents = req[r].parents
        BY <2>1, <4>1 DEF DeletingStudent
      <4> QED
        BY <3>1, <4>2 DEF Excused
    <3>2. CASE u \notin req[r].parents
      BY <2>1, <2>6, <3>2 DEF Excused
    <3> QED
      BY <3>1, <3>2
  <2> QED
    BY <2>3, <2>4, <2>5, <2>6
<1>8. ASSUME NEW r \in Requests, ParentsDeactivated(r)
      PROVE  Accounts'
  <2>1. /\ db' = Deactivated(req[r].parents) /\ req[r].op = "deactivate"
        /\ req' = [req EXCEPT ![r] = Idle] /\ missed' = missed /\ matched' = matched
    BY <1>1, <1>8, ParentsDeactivatedIs DEF Commit, Done
  <2> SUFFICES ASSUME NEW u \in Users
               PROVE  /\ Stuck(db', u) => u \in matched'
                      /\ Childfree(db', u) => Excused(u)'
    BY DEF Accounts
  <2>2. /\ Stuck(db', u) => Stuck(db, u)
        /\ Childfree(db', u) => Childfree(db, u) /\ u \notin req[r].parents
    BY <1>1, <2>1, DeactivatedAccounts
  <2>3. ASSUME Childfree(db', u) PROVE Excused(u)'
    <3>1. Excused(u) /\ u \notin req[r].parents
      BY <2>2, <2>3 DEF Accounts
    <3> QED
      BY <1>1, <2>1, <3>1, ExcuseStays
  <2> QED
    BY <2>1, <2>2, <2>3 DEF Accounts
<1>9. ASSUME NEW r \in Requests, DeactivationFails(r)
      PROVE  Accounts'
  <2>1. /\ db' = db /\ matched' = matched /\ missed' = missed \cup req[r].parents
        /\ req' = [req EXCEPT ![r] = Idle]
    BY <1>1, <1>9, DeactivationFailsIs DEF Done
  <2> SUFFICES ASSUME NEW u \in Users
               PROVE  /\ Stuck(db', u) => u \in matched'
                      /\ Childfree(db', u) => Excused(u)'
    BY DEF Accounts
  <2>2. ASSUME Childfree(db', u) PROVE Excused(u)'
    <3>1. Excused(u)
      BY <2>1, <2>2 DEF Accounts
    <3>2. u \notin req[r].parents \/ u \in missed'
      BY <2>1
    <3>3. missed \subseteq missed'
      BY <2>1
    <3> QED
      BY <1>1, <2>1, <3>1, <3>2, <3>3, ExcuseStays
  <2> QED
    BY <2>1, <2>2 DEF Accounts
<1>10. ASSUME NEW r \in Requests, Refuse(r)
       PROVE  Accounts'
  <2>1. /\ db' = db /\ matched' = matched /\ missed' = missed
        /\ req' = [req EXCEPT ![r] = Idle] /\ req[r].op # "deactivate"
    BY <1>10 DEF Refuse, Done
  <2> QED
    BY <1>3, <2>1
<1> QED
  BY <1>2, <1>4, <1>5, <1>6, <1>7, <1>8, <1>9, <1>10 DEF Next, Goes

\* Whatever order students and accounts are created, linked, moved and deleted in, a
\* parent's account works exactly while it has a child, but for a deletion that did not
\* reach it and a child that came with an address or a center.
THEOREM ParentsAccountsFollow == Spec => []AccountsFollowChildren
<1>1. Init => Accounts
  <2> SUFFICES ASSUME Init, NEW u \in Users
               PROVE  ~Stuck(db, u) /\ ~Childfree(db, u)
    BY DEF Accounts
  <2>1. AccountsFollow(db)
    BY StartAssumption DEF Init
  <2> QED
    BY <2>1 DEF AccountsFollow, Stuck, Childfree, Kids, Is
<1>2. Inv /\ Accounts /\ [Next]_vars => Accounts'
  BY AccountsKept
<1>3. Inv /\ Accounts => AccountsFollowChildren
  <2> SUFFICES ASSUME Accounts, NEW p \in Users, Is(db, p, "Parent")
               PROVE  IF db.user[p].isActive
                      THEN \/ Kids(db, p) # {}
                           \/ p \in missed
                           \/ \E r \in Requests : req[r].op = "deactivate" /\ p \in req[r].parents
                      ELSE Kids(db, p) = {} \/ p \in matched
    BY DEF AccountsFollowChildren
  <2> QED
    BY DEF Accounts, Stuck, Childfree, Excused
<1> QED
  BY <1>1, <1>2, <1>3, InvHolds, PTL DEF Spec

----------------------------------------------------------------------------
(* Children and parents at one center *)

\* p and the student s are at different centers.
Separate(d, p, s) ==
  /\ d.user[p].center # NoCenter /\ CenterOf(d, s) # NoCenter
  /\ Is(d, p, "Parent") /\ d.user[p].center # CenterOf(d, s)

LEMMA ApartShrinks ==
  ASSUME NEW d \in Database, NEW e \in Database,
         \A p \in Users, s \in Students :
           <<p, s>> \in e.link /\ Separate(e, p, s) => <<p, s>> \in d.link /\ Separate(d, p, s)
  PROVE  Apart(e) \subseteq Apart(d)
<1> SUFFICES ASSUME NEW l \in Apart(e)
             PROVE  l \in Apart(d)
  OBVIOUS
<1>1. l \in e.link /\ Separate(e, l[1], l[2])
  BY DEF Apart, Separate
<1>2. l \in Users \X Students
  BY <1>1, DatabaseFields
<1>3. PICK p \in Users, s \in Students : l = <<p, s>>
  BY <1>2
<1>4. l[1] = p /\ l[2] = s
  BY <1>3
<1>5. <<p, s>> \in d.link /\ Separate(d, p, s)
  BY <1>1, <1>3, <1>4
<1> QED
  BY <1>3, <1>4, <1>5 DEF Apart, Separate

\* A student whose teacher, and whose teacher's center, is the same.
LEMMA CenterStays ==
  ASSUME NEW d, NEW e, NEW s, e.teacher[s] = d.teacher[s],
         d.teacher[s] # Nobody => e.user[d.teacher[s]].center = d.user[d.teacher[s]].center
  PROVE  CenterOf(e, s) = CenterOf(d, s)
BY DEF CenterOf

LEMMA SeparateStays ==
  ASSUME NEW d, NEW e, NEW p, NEW s, CenterOf(e, s) = CenterOf(d, s),
         e.user[p].exists = d.user[p].exists, e.user[p].role = d.user[p].role,
         e.user[p].center = d.user[p].center, Separate(e, p, s)
  PROVE  Separate(d, p, s)
BY DEF Separate, Is

LEMMA RegisteredTogether ==
  ASSUME db \in Database, ReferencesHold(db), NEW q \in Registering, NEW e \in Registered(q),
         q.role = "Parent" => \A s \in q.kids : CenterOf(db, s) = q.center
  PROVE  Apart(e) \subseteq Apart(db)
<1>1. PICK found \in SUBSET Students :
        /\ e.link = db.link \cup ({q.u} \X (q.kids \cup found))
        /\ \A s \in found : /\ s \in db.students /\ q.center # NoCenter
                            /\ CenterOf(e, s) = q.center
  BY RegisteredIs
<1>2. /\ e \in Database /\ ~db.user[q.u].exists /\ e.teacher = db.teacher
      /\ e.user = [db.user EXCEPT ![q.u] = [exists |-> TRUE, role |-> q.role,
                                           center |-> q.center, isActive |-> TRUE]]
  BY RegisteredIs
<1>3. /\ db.user \in [Users -> User]
      /\ \A s \in Students : db.teacher[s] \in Users \cup {Nobody}
  BY DatabaseFields
<1>4. \A s \in Students : CenterOf(e, s) = CenterOf(db, s)
  <2> SUFFICES ASSUME NEW s \in Students
               PROVE  CenterOf(e, s) = CenterOf(db, s)
    OBVIOUS
  <2>1. db.teacher[s] # Nobody => db.teacher[s] \in Users /\ db.teacher[s] # q.u
    BY <1>2, <1>3 DEF ReferencesHold
  <2> QED
    BY <1>2, <1>3, <2>1, CenterStays
<1> SUFFICES ASSUME NEW p \in Users, NEW s \in Students, <<p, s>> \in e.link, Separate(e, p, s)
             PROVE  <<p, s>> \in db.link /\ Separate(db, p, s)
  BY <1>2, ApartShrinks
<1>5. CASE p # q.u
  <2>1. <<p, s>> \in db.link
    BY <1>1, <1>5
  <2>2. e.user[p] = db.user[p]
    BY <1>2, <1>3, <1>5
  <2> QED
    BY <1>4, <2>1, <2>2, SeparateStays
<1>6. CASE p = q.u
  <2>1. e.user[p].role = q.role /\ e.user[p].center = q.center
    BY <1>2, <1>3, <1>6
  <2>2. <<p, s>> \notin db.link
    BY <1>2, <1>6 DEF ReferencesHold
  <2>3. s \in q.kids \cup found
    BY <1>1, <2>2
  <2>4. q.role = "Parent"
    BY <2>1 DEF Separate, Is
  <2>5. CenterOf(e, s) = q.center
    BY <1>1, <1>4, <2>3, <2>4
  <2> QED
    BY <2>1, <2>5 DEF Separate
<1> QED
  BY <1>5, <1>6

LEMMA WithoutUserTogether ==
  ASSUME db \in Database, NEW u \in Users
  PROVE  Apart(WithoutUser(u)) \subseteq Apart(db)
<1> DEFINE e == WithoutUser(u)
<1>1. /\ e \in Database
      /\ e.user = [db.user EXCEPT ![u] = NoUser]
      /\ e.link = db.link \ ({u} \X Students)
      /\ e.teacher = [s \in Students |-> IF db.teacher[s] = u THEN Nobody ELSE db.teacher[s]]
  BY WithoutUserIs
<1>2. /\ db.user \in [Users -> User]
      /\ \A s \in Students : db.teacher[s] \in Users \cup {Nobody}
  BY DatabaseFields
<1> HIDE DEF e
<1>3. ASSUME NEW p \in Users, NEW s \in Students, <<p, s>> \in e.link, Separate(e, p, s)
      PROVE  <<p, s>> \in db.link /\ Separate(db, p, s)
  <2>1. <<p, s>> \in db.link /\ p # u
    BY <1>1, <1>3
  <2>2. e.user[p] = db.user[p]
    BY <1>1, <1>2, <2>1
  <2>3. e.teacher[s] # Nobody
    BY <1>3 DEF Separate, CenterOf
  <2>4. e.teacher[s] = db.teacher[s] /\ db.teacher[s] # u
    BY <1>1, <2>3
  <2>5. db.teacher[s] # Nobody => e.user[db.teacher[s]].center = db.user[db.teacher[s]].center
    BY <1>1, <1>2, <2>4
  <2>6. CenterOf(e, s) = CenterOf(db, s)
    BY <2>4, <2>5, CenterStays
  <2> QED
    BY <1>3, <2>1, <2>2, <2>6, SeparateStays
<1>4. Apart(e) \subseteq Apart(db)
  BY <1>1, <1>3, ApartShrinks
<1> QED
  BY <1>4 DEF e

LEMMA WithoutStudentTogether ==
  ASSUME db \in Database, NEW x \in Students
  PROVE  Apart(WithoutStudent(x)) \subseteq Apart(db)
<1> DEFINE e == WithoutStudent(x)
<1>1. /\ e \in Database /\ e.user = db.user
      /\ e.link = db.link \ (Users \X {x})
      /\ e.teacher = [db.teacher EXCEPT ![x] = Nobody]
  BY WithoutStudentIs
<1> HIDE DEF e
<1>2. ASSUME NEW p \in Users, NEW s \in Students, <<p, s>> \in e.link, Separate(e, p, s)
      PROVE  <<p, s>> \in db.link /\ Separate(db, p, s)
  <2>1. <<p, s>> \in db.link /\ s # x
    BY <1>1, <1>2
  <2>2. e.teacher[s] = db.teacher[s]
    BY <1>1, <2>1, DatabaseFields
  <2>3. CenterOf(e, s) = CenterOf(db, s)
    BY <1>1, <2>2, CenterStays
  <2> QED
    BY <1>1, <1>2, <2>1, <2>3, SeparateStays
<1>3. Apart(e) \subseteq Apart(db)
  BY <1>1, <1>2, ApartShrinks
<1> QED
  BY <1>3 DEF e

LEMMA DeactivatedTogether ==
  ASSUME db \in Database, NEW parents
  PROVE  Apart(Deactivated(parents)) \subseteq Apart(db)
<1> DEFINE e == Deactivated(parents)
<1>1. /\ e \in Database /\ e.teacher = db.teacher /\ e.link = db.link
      /\ \A u \in Users : /\ e.user[u].exists = db.user[u].exists
                          /\ e.user[u].role = db.user[u].role
                          /\ e.user[u].center = db.user[u].center
  BY DeactivatedIs
<1> HIDE DEF e
<1>2. ASSUME NEW p \in Users, NEW s \in Students, <<p, s>> \in e.link, Separate(e, p, s)
      PROVE  <<p, s>> \in db.link /\ Separate(db, p, s)
  <2>1. db.teacher[s] \in Users \cup {Nobody}
    BY DatabaseFields
  <2>2. CenterOf(e, s) = CenterOf(db, s)
    BY <1>1, <2>1, CenterStays
  <2> QED
    BY <1>1, <1>2, <2>2, SeparateStays
<1>3. Apart(e) \subseteq Apart(db)
  BY <1>1, <1>2, ApartShrinks
<1> QED
  BY <1>3 DEF e

LEMMA SavedTogether ==
  ASSUME db \in Database, ReferencesHold(db), NEW q \in Saving, NEW d \in Saved(q),
         ParentsAreAt(q, d)
  PROVE  Apart(LinkedAccounts(q, d)) \subseteq Apart(db)
<1> DEFINE e == LinkedAccounts(q, d)
<1>1. /\ d \in Database /\ d.user = db.user /\ d.link = db.link
      /\ d.teacher = [db.teacher EXCEPT ![q.s] = IF q.op = "create" \/ q.moved
                                                 THEN q.teacher ELSE @]
      /\ q.s \in db.students <=> q.op = "edit"
  BY SavedIs
<1>2. /\ e \in Database /\ e.teacher = d.teacher
      /\ e.link = d.link \cup (NewlyListed(q, d) \X {q.s})
  BY <1>1, LinkedAccountsIs
<1>3. \A u \in Users : /\ e.user[u].exists = db.user[u].exists
                       /\ e.user[u].role = db.user[u].role
                       /\ e.user[u].center = db.user[u].center
  BY <1>1, LinkedAccountsRow
<1>4. \A s \in Students : d.teacher[s] \in Users \cup {Nobody}
  BY <1>1, DatabaseFields
<1>5. q.s \in Students
  BY DEF Saving
<1> HIDE DEF e
<1>6. \A s \in Students : CenterOf(e, s) = CenterOf(d, s)
  <2> SUFFICES ASSUME NEW s \in Students
               PROVE  CenterOf(e, s) = CenterOf(d, s)
    OBVIOUS
  <2>1. e.teacher[s] = d.teacher[s]
    BY <1>2
  <2>2. d.teacher[s] # Nobody => e.user[d.teacher[s]].center = d.user[d.teacher[s]].center
    BY <1>1, <1>3, <1>4
  <2> QED
    BY <2>1, <2>2, CenterStays
<1>7. ASSUME NEW p \in Users, NEW s \in Students, <<p, s>> \in e.link, Separate(e, p, s)
      PROVE  <<p, s>> \in db.link /\ Separate(db, p, s)
  <2>1. <<p, s>> \in db.link
    <3>1. ASSUME p \in NewlyListed(q, d), s = q.s
          PROVE  FALSE
      <4>1. d.user[p].center = CenterOf(d, s)
        BY <3>1 DEF NewlyListed
      <4> QED
        BY <1>1, <1>3, <1>6, <1>7, <4>1 DEF Separate
    <3> QED
      BY <1>1, <1>2, <1>7, <3>1
  <2>2. d.teacher[s] = db.teacher[s]
    <3>1. CASE s # q.s
      BY <1>1, <3>1, DatabaseFields
    <3>2. CASE s = q.s
      <4>1. q.op = "edit"
        BY <1>1, <2>1, <3>2 DEF ReferencesHold
      <4>2. CASE ~q.moved
        BY <1>1, <3>2, <4>1, <4>2, DatabaseFields
      <4>3. CASE q.moved /\ q.teacher = db.teacher[q.s]
        BY <1>1, <3>2, <4>1, <4>3, DatabaseFields
      <4>4. CASE q.moved /\ q.teacher # db.teacher[q.s]
        <5>1. p \in ParentsOf(d, q.s)
          BY <1>1, <2>1, <3>2 DEF ParentsOf
        <5>2. d.user[p].center = CenterOf(d, s)
          BY <3>2, <4>4, <5>1 DEF ParentsAreAt
        <5> QED
          BY <1>1, <1>3, <1>6, <1>7, <5>2 DEF Separate
      <4> QED
        BY <4>2, <4>3, <4>4
    <3> QED
      BY <3>1, <3>2
  <2>3. CenterOf(d, s) = CenterOf(db, s)
    BY <1>1, <2>2 DEF CenterOf
  <2> QED
    BY <1>3, <1>6, <1>7, <2>1, <2>3, SeparateStays
<1>8. Apart(e) \subseteq Apart(db)
  BY <1>1, <1>2, <1>7, ApartShrinks
<1> QED
  BY <1>8 DEF e

\* No former teacher, with students left, changes in the update.
OnlyTeachers(q) ==
  /\ Enrolled(db, q.u) # {} => {q.was.role, q.role} = {"Teacher"}
  /\ \A p \in Families(db, q.u) : Enrolled(db, p) = {}

\* What an update leaves of the centers: those of everybody but the one who moves and
\* the families that move along, and of every student who is with somebody else.
LEMMA UpdatedTogether ==
  ASSUME db \in Database, ReferencesHold(db), NEW q \in Updating, NEW e \in Updated(q),
         q.op = "update", Reads(db, q), OnlyTeachers(q)
  PROVE  Apart(e) \subseteq Apart(db)
<1> DEFINE d == Rewritten(q)
<1>1. PICK m \in TeacherMoved(q, d) : e = LinkedByEmail(q, m) /\ LinksAreRight(q, e)
  BY DEF Updated
<1>2. /\ d \in Database /\ d.user = [db.user EXCEPT ![q.u] = RowOf(q)]
      /\ d.students = db.students /\ d.teacher = db.teacher
      /\ d.link = (db.link \ ({q.u} \X Dropped(q))) \cup ({q.u} \X q.kids)
  BY RewrittenIs
<1> HIDE DEF d
<1>3. /\ q.u \in Users /\ q.kids \subseteq Students
      /\ db.user \in [Users -> User]
      /\ \A s \in Students : db.teacher[s] \in Users \cup {Nobody}
  BY DatabaseFields DEF Updating
<1>4. /\ q.was.role = db.user[q.u].role /\ q.was.center = db.user[q.u].center
      /\ q.role = "Parent" =>
           /\ \A s \in q.kids : CenterOf(db, s) = q.center
           /\ q.was.role # "Parent" => q.given /\ q.scope = NoCenter
  BY DEF Reads
<1>5. \A p \in Users : p # q.u => d.user[p] = db.user[p]
  BY <1>2, <1>3
<1>6. /\ d.user[q.u].exists = db.user[q.u].exists
      /\ d.user[q.u].role = q.role /\ d.user[q.u].center = q.center
  BY <1>2, <1>3, <1>4, RowIs DEF Moved
<1>7. /\ m \in Database /\ m.students = d.students /\ m.link = d.link
  <2>1. d \in Database
    BY <1>2
  <2> QED
    BY <1>1, <2>1, TeacherMovedIs
<1>8. /\ e \in Database /\ e.user = m.user /\ e.teacher = m.teacher
      /\ e.students = m.students
  BY <1>1, <1>7, LinkedByEmailIs
<1>9. PICK found \in SUBSET Students :
        /\ e.link = m.link \cup ({q.u} \X found)
        /\ \A s \in found : /\ q.role = "Parent" /\ q.center # NoCenter
                            /\ s \in m.students /\ CenterOf(m, s) = q.center
  BY <1>1, <1>7, LinkedByEmailIs
<1>10. \A s \in Students : CenterOf(e, s) = CenterOf(m, s)
  BY <1>8 DEF CenterOf
<1>11. \A p \in Users, s \in Students : <<p, s>> \in e.link /\ p # q.u => <<p, s>> \in db.link
  BY <1>2, <1>7, <1>9
<1>12. \A p \in Users, s \in Students : <<p, s>> \in e.link => s \in db.students
  <2>1. ReferencesHold(e)
    BY UpdatedRefers
  <2> QED
    BY <1>2, <1>7, <1>8, <2>1 DEF ReferencesHold
<1>13. \A s \in Students : s \in Enrolled(d, q.u) <=> s \in Enrolled(db, q.u)
  BY <1>2, EnrolledIs
<1> SUFFICES ASSUME NEW p \in Users, NEW s \in Students, <<p, s>> \in e.link, Separate(e, p, s)
             PROVE  <<p, s>> \in db.link /\ Separate(db, p, s)
  BY <1>8, ApartShrinks
<1>14. s \in db.students
  BY <1>12
\* Nobody's students are affected: only the account and its links change.
<1>15. CASE m = d /\ s \notin Enrolled(db, q.u)
  <2>1. db.teacher[s] # q.u
    BY <1>14, <1>15, EnrolledIs
  <2>2. CenterOf(e, s) = CenterOf(db, s)
    BY <1>2, <1>3, <1>5, <1>10, <1>15, <2>1 DEF CenterOf
  <2>3. CASE p # q.u
    <3>1. e.user[p] = db.user[p]
      BY <1>5, <1>8, <1>15, <2>3
    <3> QED
      BY <1>11, <2>2, <2>3, <3>1, SeparateStays
  <2>4. CASE p = q.u
    <3>1. /\ e.user[p].exists = db.user[p].exists
          /\ e.user[p].role = q.role /\ e.user[p].center = q.center
      BY <1>6, <1>8, <1>15, <2>4
    <3>2. q.role = "Parent" /\ CenterOf(e, s) # q.center
      BY <3>1 DEF Separate, Is
    <3>3. s \notin found /\ s \notin q.kids
      BY <1>4, <1>9, <1>10, <2>2, <3>2
    <3>4. <<p, s>> \in db.link /\ s \notin Dropped(q)
      BY <1>2, <1>7, <1>9, <2>4, <3>3
    <3>5. ~Moved(q)
      <4>1. s \in Kids(e, q.u)
        BY <2>4 DEF Kids
      <4> QED
        BY <1>1, <3>2, <4>1 DEF LinksAreRight
    <3>6. q.was.role = "Parent"
      BY <1>4, <3>2, <3>4 DEF Dropped
    <3>7. db.user[p].role = "Parent" /\ db.user[p].center = q.center
      BY <1>4, <2>4, <3>5, <3>6 DEF Moved
    <3> QED
      BY <2>2, <3>1, <3>2, <3>4, <3>7, SeparateStays
  <2> QED
    BY <2>3, <2>4
\* A teacher and their students, at the old center or the new.
<1>16. CASE Enrolled(db, q.u) # {}
  <2>1. q.was.role = "Teacher" /\ q.role = "Teacher"
    BY <1>16 DEF OnlyTeachers
  <2>2. p # q.u
    BY <1>6, <1>8, <1>2, <2>1, UpdatedIs DEF Separate, Is
  <2>3. <<p, s>> \in db.link
    BY <1>11, <2>2
  <2>4. d.user[p] = db.user[p]
    BY <1>5, <2>2
  <2>5. CASE m = d /\ ~Moved(q)
    <3>1. \A x \in Users : e.user[x].center = db.user[x].center
      BY <1>3, <1>4, <1>5, <1>6, <1>8, <2>5 DEF Moved
    <3>2. CenterOf(e, s) = CenterOf(db, s)
      BY <1>2, <1>3, <1>8, <2>5, <3>1 DEF CenterOf
    <3> QED
      BY <1>8, <2>3, <2>4, <2>5, <3>2, SeparateStays
  <2>6. CASE /\ q.next \in Users /\ q.next # q.u
             /\ d.user[q.next].center = q.was.center
             /\ m.user = d.user
             /\ m.teacher = [x \in Students |-> IF x \in Enrolled(d, q.u) THEN q.next
                                                 ELSE d.teacher[x]]
    <3>1. CenterOf(e, s) = CenterOf(db, s)
      <4>1. CASE s \in Enrolled(db, q.u)
        <5>1. db.teacher[s] = q.u
          BY <4>1, EnrolledIs
        <5>2. e.teacher[s] = q.next
          BY <1>8, <1>13, <2>6, <4>1
        <5>3. e.user[q.next].center = db.user[q.u].center
          BY <1>4, <1>8, <2>6
        <5> QED
          BY <1>3, <2>6, <5>1, <5>2, <5>3, FamiliesAssumption DEF CenterOf
      <4>2. CASE s \notin Enrolled(db, q.u)
        <5>1. db.teacher[s] # q.u
          BY <1>14, <4>2, EnrolledIs
        <5>2. e.teacher[s] = db.teacher[s]
          BY <1>2, <1>8, <1>13, <2>6, <4>2
        <5>3. db.teacher[s] # Nobody =>
                e.user[db.teacher[s]].center = db.user[db.teacher[s]].center
          BY <1>3, <1>5, <1>8, <2>6, <5>1
        <5> QED
          BY <5>2, <5>3, CenterStays
      <4> QED
        BY <4>1, <4>2
    <3> QED
      BY <1>8, <2>3, <2>4, <2>6, <3>1, SeparateStays
  <2>7. CASE /\ m.teacher = d.teacher
             /\ m.user = [x \in Users |-> IF x \in Families(d, q.u)
                                            THEN [d.user[x] EXCEPT !.center = q.center]
                                            ELSE d.user[x]]
             /\ \A x \in Families(d, q.u) : Kids(d, x) \subseteq Enrolled(d, q.u)
    <3>1. q.u \notin Families(d, q.u)
      BY <1>6, <2>1 DEF Families, Is
    <3>2. e.user[q.u] = d.user[q.u] /\ e.teacher = db.teacher
      BY <1>2, <1>3, <1>8, <2>7, <3>1
    <3>3. <<p, s>> \in d.link
      BY <1>7, <1>9, <2>2
    <3>4. CASE p \in Families(d, q.u)
      <4>1. s \in Enrolled(d, q.u)
        BY <2>7, <3>3, <3>4 DEF Kids
      <4>2. db.teacher[s] = q.u
        BY <1>13, <4>1, EnrolledIs
      <4>3. CenterOf(e, s) = q.center
        BY <1>3, <1>6, <3>2, <4>2, FamiliesAssumption DEF CenterOf
      <4>4. e.user[p].center = q.center
        <5>1. e.user[p] = [d.user[p] EXCEPT !.center = q.center]
          BY <1>8, <2>7, <3>4
        <5>2. d.user[p] \in User
          BY <1>2, UserFields
        <5> QED
          BY <5>1, <5>2 DEF User
      <4> QED
        BY <4>3, <4>4 DEF Separate
    <3>5. CASE p \notin Families(d, q.u)
      <4>1. e.user[p] = db.user[p]
        BY <1>8, <2>4, <2>7, <3>5
      <4>2. Is(d, p, "Parent")
        BY <2>4, <4>1 DEF Separate, Is
      <4>3. s \notin Enrolled(d, q.u)
        BY <3>3, <3>5, <4>2 DEF Families, Kids
      <4>4. db.teacher[s] # q.u
        BY <1>13, <1>14, <4>3, EnrolledIs
      <4>5. ASSUME db.teacher[s] # Nobody
            PROVE  e.user[db.teacher[s]] = db.user[db.teacher[s]]
        <5>1. db.teacher[s] \in Users /\ s \in Enrolled(db, db.teacher[s])
          BY <1>3, <1>14, <4>5, EnrolledIs
        <5>2. db.teacher[s] \notin Families(db, q.u)
          BY <5>1 DEF OnlyTeachers
        <5>3. db.teacher[s] \notin Families(d, q.u)
          <6>1. Is(d, db.teacher[s], "Parent") <=> Is(db, db.teacher[s], "Parent")
            BY <1>5, <4>4, <5>1 DEF Is
          <6>2. Kids(d, db.teacher[s]) = Kids(db, db.teacher[s])
            BY <1>2, <4>4, <5>1 DEF Kids
          <6> QED
            BY <1>13, <5>1, <5>2, <6>1, <6>2 DEF Families, Kids
        <5>4. d.user[db.teacher[s]] = db.user[db.teacher[s]]
          BY <1>5, <4>4, <5>1
        <5> QED
          BY <1>8, <2>7, <5>1, <5>3, <5>4
      <4>6. CenterOf(e, s) = CenterOf(db, s)
        BY <3>2, <4>5, CenterStays
      <4> QED
        BY <2>3, <4>1, <4>6, SeparateStays
    <3> QED
      BY <3>4, <3>5
  <2>8. Enrolled(d, q.u) # {}
    BY <1>2, <1>16 DEF Enrolled
  <2>9. MovesOn(q) <=> Moved(q)
    BY <2>1 DEF MovesOn
  <2>10. d \in Database
    BY <1>2
  <2>11. \/ m = d /\ (MovesOn(q) => Enrolled(d, q.u) = {})
         \/ /\ q.next \in Users /\ q.next # q.u
            /\ d.user[q.next].center = q.was.center
            /\ m.user = d.user
            /\ m.teacher = [x \in Students |-> IF x \in Enrolled(d, q.u) THEN q.next
                                                ELSE d.teacher[x]]
         \/ /\ m.teacher = d.teacher
            /\ m.user = [x \in Users |-> IF x \in Families(d, q.u)
                                           THEN [d.user[x] EXCEPT !.center = q.center]
                                           ELSE d.user[x]]
            /\ \A x \in Families(d, q.u) : Kids(d, x) \subseteq Enrolled(d, q.u)
    BY <1>1, <2>10, TeacherMovedIs
  <2> QED
    BY <2>5, <2>6, <2>7, <2>8, <2>9, <2>11
<1>17. CASE Enrolled(db, q.u) = {}
  <2>1. Enrolled(d, q.u) = {}
    BY <1>2, <1>17 DEF Enrolled
  <2>2. m = d
    BY <1>1, <2>1 DEF TeacherMoved
  <2> QED
    BY <1>15, <1>17, <2>2
<1> QED
  BY <1>16, <1>17

\* Nothing that is saved takes a child and a parent's account to different centers, but
\* a request others have overtaken and a change of role of somebody with students,
\* then or later.
THEOREM FamiliesAreKeptTogether == Spec => FamiliesStayTogether
<1>1. ASSUME Inv, NEW r \in Requests, DatabaseStep(r), r \notin late,
             req[r].op = "update" => OnlyTeachers(req[r])
      PROVE  Apart(db') \subseteq Apart(db)
  <2>1. db \in Database /\ ReferencesHold(db)
    BY <1>1 DEF Inv, TypeOK
  <2>2. req[r].op # "none" => Reads(db, req[r])
    BY <1>1 DEF Inv, Current, Idle
  <2>3. CASE req[r] \in Registering /\ req[r].op = "register" /\ db' \in Registered(req[r])
    BY <2>1, <2>2, <2>3, RegisteredTogether DEF Reads
  <2>4. CASE req[r] \in Updating /\ req[r].op = "update" /\ db' \in Updated(req[r])
    BY <1>1, <2>1, <2>2, <2>4, UpdatedTogether
  <2>5. CASE /\ req[r] \in DeletingUser /\ req[r].op = "delete_user"
             /\ req[r].u \in Users /\ db' = WithoutUser(req[r].u)
    BY <2>1, <2>5, WithoutUserTogether
  <2>6. CASE /\ req[r] \in Saving
             /\ \E d \in Saved(req[r]) :
                  ParentsAreAt(req[r], d) /\ db' = LinkedAccounts(req[r], d)
    BY <2>1, <2>6, SavedTogether
  <2>7. CASE /\ req[r] \in DeletingStudent /\ req[r].op = "delete_student"
             /\ req[r].s \in Students /\ db' = WithoutStudent(req[r].s)
    BY <2>1, <2>7, WithoutStudentTogether
  <2>8. CASE /\ req[r] \in DeletingStudent /\ req[r].op = "deactivate"
             /\ db' = Deactivated(req[r].parents)
    BY <2>1, <2>8, DeactivatedTogether
  <2> QED
    BY <1>1, <2>3, <2>4, <2>5, <2>6, <2>7, <2>8 DEF DatabaseStep
<1>2. Inv /\ [Next]_vars =>
  [Apart(db') \subseteq Apart(db)
     \/ \E r \in Stepping :
          \/ r \in late
          \/ /\ req[r].op = "update"
             /\ \/ Enrolled(db, req[r].u) # {} /\ {req[r].was.role, req[r].role} # {"Teacher"}
                \/ \E p \in Families(db, req[r].u) : Enrolled(db, p) # {}]_vars
  <2> SUFFICES ASSUME Inv, [Next]_vars, ~(Apart(db') \subseteq Apart(db))
               PROVE  \E r \in Stepping :
                        \/ r \in late
                        \/ /\ req[r].op = "update"
                           /\ \/ /\ Enrolled(db, req[r].u) # {}
                                 /\ {req[r].was.role, req[r].role} # {"Teacher"}
                              \/ \E p \in Families(db, req[r].u) : Enrolled(db, p) # {}
    OBVIOUS
  <2>1. PICK r \in Requests : r \in Stepping /\ DatabaseStep(r)
    <3>1. db' # db
      OBVIOUS
    <3> QED
      BY <3>1, DatabaseSteps DEF Inv
  <2> QED
    BY <1>1, <2>1 DEF OnlyTeachers
<1> QED
  BY <1>2, InvHolds, PTL DEF Spec, FamiliesStayTogether

=============================================================================
